---------------------------- MODULE Spec2Model ----------------------------
(***************************************************************************)
(* LETID defect-state kinetics of PVDegradationTools: the lab run of       *)
(* "LETID - Accelerated Test.py" (the steps calc_letid_lab wraps): build   *)
(* the timestep record, seed row 0, step the three-state (A, B, C)         *)
(* forward-Euler loop, recompute tau, fill Jsc/Voc, hand the record back,  *)
(* then calc_regeneration_time on the record.                              *)
(*                                                                         *)
(* Number representation (exact rational arithmetic, no rounding):         *)
(*   - NA, NB, NC are percentages in fixed point with Scale units per      *)
(*     percent: the cell value 100 * Scale is 100 %.                       *)
(*   - rate constants k_ij are in units of 1/RateDen per second, carrier   *)
(*     factors are dimensionless integers, t_step is in seconds.  Scale is *)
(*     RateDen^(NRows-1), so the division by RateDen of each of the        *)
(*     NRows-1 Euler steps is exact.                                       *)
(*   - tau is in units of 1/TauDen microseconds, TauDen = Percent * Scale. *)
(*   - a DataFrame cell is a sequence: <<>> is NaN, <<v>> holds v.         *)
(***************************************************************************)
EXTENDS Integers, Sequences, FiniteSets, TLC

VARIABLES tau_0, tau_deg, nA_0, nB_0, nC_0, mechanism_params,
          timesteps, index, pc, error, result, regen,
          cell_area, per_row, energy_loss,
          heap, scenarios, call, cwd, files,
          geo_pipeline, geo_results, weather_data, meta_data, dask, geo_call,
          attrs, disk, temp_call, nsrdb, frame

vars == <<tau_0, tau_deg, nA_0, nB_0, nC_0, mechanism_params,
          timesteps, index, pc, error, result, regen,
          cell_area, per_row, energy_loss,
          heap, scenarios, call, cwd, files,
          geo_pipeline, geo_results, weather_data, meta_data, dask, geo_call,
          attrs, disk, temp_call, nsrdb, frame>>

\* the calls of library functions outside a scenario: the arguments and
\* the outcome of a call of temperature.module, the h5 files of the NSRDB,
\* and the outcome of a call of weather.read_h5 or weather.get_NSRDB
libraryVars == <<temp_call, nsrdb, frame>>

\* what dump and load_json are about: the remaining attributes of the
\* Scenario objects (name, hpc, gids, lat_long, email, api_key) and the
\* json files written
persistVars == <<attrs, disk>>

\* the GeospatialScenario object: its pipeline and results, its weather
\* dataset and metadata frame, the dask tasks of a run in progress, and the
\* call last made on it
geoVars ==
  <<geo_pipeline, geo_results, weather_data, meta_data, dask, geo_call>>

\* the Scenario objects of pvdeg.scenario, the list and dictionary objects
\* they refer to, the call last made on one of them, and the process's
\* working directory and the files written
scenarioVars == <<heap, scenarios, call, cwd, files>>

\* the LETID record, its inputs and the outcomes of the calls made on it
letidVars ==
  <<tau_0, tau_deg, nA_0, nB_0, nC_0, mechanism_params, timesteps, index, pc,
    error, result, regen, cell_area, per_row, energy_loss>>

\* what the lab run never touches: the cell area it is given, the outcomes
\* of the calls made on records outside the run, and the scenarios
beside ==
  <<cell_area, per_row, energy_loss, scenarioVars, geoVars, persistVars,
    libraryVars>>

(* ------------------------------ bounds -------------------------------- *)

\* number of rows of the timestep record (the tutorial's grid has 30241)
NRows == 3

\* rate constants are multiples of 1/RateDen per second
RateDen == 4

(* ----------------------------- constants ------------------------------ *)

\* populations are percentages: nA_0 = 100 is all defects in state A
Percent == 100

\* the cell area (cm^2) the run's device parameters are computed for
CellArea == 243

Scale == RateDen ^ (NRows - 1)

TauDen == Percent * Scale

NaN == <<>>

Val(v) == <<v>>

IsNaN(c) == c = NaN

Num(c) == c[1]

\* (tau_0, tau_deg) in microseconds: the tutorial's device, and its mirror
\* image (degraded lifetime above the undegraded one)
Lifetimes == {<<115, 55>>, <<55, 115>>}

\* (nA_0, nB_0, nC_0) in percent
InitialStates == {<<100, 0, 0>>, <<50, 25, 25>>, <<100, 100, 0>>}

\* degrees Celsius
Temperatures == {25, 75}

\* "suns" of injection in tenths of a sun (0: no injection, 1: 0.1 * Isc)
Injections == {0, 1}

\* seconds between consecutive rows
StepLengths == {1, 2}

\* attempt frequencies v_ij in units of 1/RateDen per second
AttemptFrequencies == {0, 1}

\* named bundles of kinetic constants, as utilities.get_kinetics returns:
\* v_ij is the attempt frequency, ea_ij the activation energy, expressed as
\* the temperature (Celsius) from which the Boltzmann factor is at full scale
Mechanisms ==
  { [v_ab |-> a, ea_ab |-> 50, v_ba |-> b, ea_ba |-> 50,
     v_bc |-> c, ea_bc |-> 50, v_cb |-> d, ea_cb |-> 100] :
       a \in AttemptFrequencies, b \in AttemptFrequencies,
       c \in AttemptFrequencies, d \in AttemptFrequencies }

\* thresholds x (percent) that calc_regeneration_time is asked for
RegenThresholds == {80, 100}

\* no record handed back
NoResult == <<>>


(* ------------------- the library functions the run calls -------------- *)

\* letid.tau_now: the lifetime for n_b percent of the defects in state B,
\* linear between tau_0 (n_b = 0) and tau_deg (n_b = 100 %); n_b in Scale
\* units, the result in 1/TauDen microseconds
tau_now(t0, tdeg, n_b) == t0 * TauDen + n_b * (tdeg - t0)

\* the lifetime (microseconds) from which the base collects the full current
JscKnee == 85

\* (variant: no domain check)
DomainErrorNever(tau) == FALSE

\* collection.calculate_jsc_from_tau_cp rejects a lifetime <= 0
DomainError(tau) == tau <= 0

\* collection.calculate_jsc_from_tau_cp for a valid lifetime: the collected
\* current rises with the diffusion length sqrt(D * tau); two levels
calculate_jsc_from_tau_cp(tau) == IF tau >= JscKnee * TauDen THEN 2 ELSE 1

RECURSIVE ILog2(_)
ILog2(n) == IF n <= 1 THEN 0 ELSE 1 + ILog2(n \div 2)

\* letid.calc_voc_from_tau: Voc = (kT/q) ln(Jsc/J0 + 1), the saturation
\* current J0 falling with the lifetime
calc_voc_from_tau(tau, jsc) ==
  LET j0 == IF tau >= JscKnee * TauDen THEN 1 ELSE 2
  IN  ILog2((16 * jsc) \div j0 + 1)

\* letid.k_ij: Arrhenius rate constant v * exp(-ea / (kB * T)), the
\* Boltzmann factor quantised to half scale below ea and full scale from it
k_ij(v, ea, temperature) == v * (IF temperature >= ea THEN 2 ELSE 1)

\* letid.carrier_factor: (excess carriers / reference excess carriers) to the
\* transition's power; the excess carrier density grows with the injection
\* and with the collected current.  The B->A transition has power 0.
carrier_factor(tau, transition, temperature, suns, jsc, mech) ==
  IF transition = "ba" THEN 1 ELSE suns * jsc

(* ----------------------- the device parameters ------------------------ *)
(* Currents are in mA, voltages in the units of calc_voc_from_tau, the     *)
(* fill factor in thousandths, Pmp in their product; Pmp_norm and the      *)
(* energy loss are exact fractions <<numerator, denominator>> in lowest    *)
(* terms (<<1, 0>> is the float inf, NaN the float nan).                   *)

RECURSIVE GCD(_, _)
GCD(a, b) == IF b = 0 THEN a ELSE GCD(b, a % b)

\* the float quotient n / d of two non-negative numbers
Quotient(n, d) ==
  IF d = 0 THEN (IF n = 0 THEN NaN ELSE Val(<<1, 0>>))
  ELSE LET g == GCD(n, d) IN Val(<<n \div g, d \div g>>)

\* letid.ff_green: Green's approximation (v - ln(v + 0.72)) / (v + 1) of the
\* fill factor for the normalised open-circuit voltage v, in thousandths
ff_green(voltage) ==
  ((voltage - ILog2(voltage + 1)) * 1000) \div (voltage + 1)

\* (variant: the current written over the current density it is made from)
IscColumnInPlace(ts, area) ==
  [i \in 1..Len(ts) |->
     IF IsNaN(ts[i].Jsc) THEN [ts[i] EXCEPT !.Isc = NaN]
     ELSE [ts[i] EXCEPT !.Isc = Val(Num(ts[i].Jsc) * area),
                        !.Jsc = Val(Num(ts[i].Jsc) * area)]]

\* Isc = Jsc * cell area
IscColumn(ts, area) ==
  [i \in 1..Len(ts) |->
     [ts[i] EXCEPT !.Isc =
        IF IsNaN(ts[i].Jsc) THEN NaN ELSE Val(Num(ts[i].Jsc) * area)]]

\* (variant: the fill factor of the first row's voltage in every row)
FFColumnOfFirstRow(ts) ==
  [i \in 1..Len(ts) |->
     [ts[i] EXCEPT !.FF =
        IF IsNaN(ts[1].Voc) THEN NaN ELSE Val(ff_green(Num(ts[1].Voc)))]]

\* FF = ff_green(Voc)
FFColumn(ts) ==
  [i \in 1..Len(ts) |->
     [ts[i] EXCEPT !.FF =
        IF IsNaN(ts[i].Voc) THEN NaN ELSE Val(ff_green(Num(ts[i].Voc)))]]

\* (variant: the fill factor left out of the power)
PmpColumnWithoutFF(ts) ==
  [i \in 1..Len(ts) |->
     [ts[i] EXCEPT !.Pmp =
        IF IsNaN(ts[i].Voc) \/ IsNaN(ts[i].Isc) \/ IsNaN(ts[i].FF) THEN NaN
        ELSE Val(Num(ts[i].Voc) * Num(ts[i].Isc))]]

\* Pmp = Voc * Isc * FF
PmpColumn(ts) ==
  [i \in 1..Len(ts) |->
     [ts[i] EXCEPT !.Pmp =
        IF IsNaN(ts[i].Voc) \/ IsNaN(ts[i].Isc) \/ IsNaN(ts[i].FF) THEN NaN
        ELSE Val(Num(ts[i].Voc) * Num(ts[i].Isc) * Num(ts[i].FF))]]

\* Pmp_norm = Pmp / Pmp of the record's first row
PmpNormColumn(ts) ==
  [i \in 1..Len(ts) |->
     [ts[i] EXCEPT !.Pmp_norm =
        IF IsNaN(ts[i].Pmp) \/ IsNaN(ts[1].Pmp) THEN NaN
        ELSE Quotient(Num(ts[i].Pmp), Num(ts[1].Pmp))]]

\* letid.calc_device_params(timesteps, cell_area): the record with its Isc,
\* FF, Pmp and Pmp_norm columns filled
calc_device_params(ts, area) ==
  PmpNormColumn(PmpColumn(FFColumn(IscColumn(ts, area))))

Abs(n) == IF n < 0 THEN -n ELSE n

\* n / d, d > 0, in lowest terms
Fraction(n, d) == LET g == GCD(Abs(n), d) IN <<n \div g, d \div g>>

FractionSum(x, y) == Fraction(x[1] * y[2] + y[1] * x[2], x[2] * y[2])

\* a Pmp_norm cell that holds a finite number
Finite(c) == ~IsNaN(c) /\ Num(c)[2] # 0

\* (variant: rectangle rule, the deficit at the start of the interval)
DeficitStepLeft(ts, i) ==
  LET p == Num(ts[i - 1].Pmp_norm)
      dt == ts[i].Datetime - ts[i - 1].Datetime
  IN  Fraction(dt * (p[2] - p[1]), p[2])

\* the trapezoid of the deficit 1 - Pmp_norm between positions i - 1 and i
DeficitStep(ts, i) ==
  LET p == Num(ts[i - 1].Pmp_norm)
      q == Num(ts[i].Pmp_norm)
      dt == ts[i].Datetime - ts[i - 1].Datetime
  IN  Fraction(dt * (2 * p[2] * q[2] - p[1] * q[2] - q[1] * p[2]),
               2 * p[2] * q[2])

RECURSIVE DeficitIntegral(_, _)
\* the time integral of the deficit from the first row to position i
DeficitIntegral(ts, i) ==
  IF i = 1 THEN <<0, 1>>
  ELSE FractionSum(DeficitIntegral(ts, i - 1), DeficitStep(ts, i))

\* letid.calc_energy_loss(timesteps): the integral of the deficit 1 - Pmp_norm
\* over the record's period divided by the integral of the baseline 1 over
\* the same period; not a number when a Pmp_norm is not finite or the period
\* is empty
calc_energy_loss(ts) ==
  LET period == ts[Len(ts)].Datetime - ts[1].Datetime
      lost == DeficitIntegral(ts, Len(ts))
  IN  IF period = 0 \/ \E i \in 1..Len(ts) : ~Finite(ts[i].Pmp_norm)
      THEN NaN
      ELSE Val(Fraction(lost[1], lost[2] * period))

(* ------------------------ the steps of the run ------------------------ *)

\* timesteps.at[i, ...] with the DataFrame's 0-based label i
Row(ts, i) == ts[i + 1]

\* (variant: the seeded lifetime taken from nA_0)
SeededRowTauFromNA(row) ==
  [row EXCEPT !.NA = Val(nA_0 * Scale), !.NB = Val(nB_0 * Scale),
              !.NC = Val(nC_0 * Scale),
              !.tau = Val(tau_now(tau_0, tau_deg, nA_0 * Scale))]

\* row 0 after "timesteps.loc[0, ['NA','NB','NC']] = nA_0, nB_0, nC_0" and
\* "timesteps.loc[0, 'tau'] = letid.tau_now(tau_0, tau_deg, nB_0)"
SeededRow(row) ==
  [row EXCEPT !.NA = Val(nA_0 * Scale), !.NB = Val(nB_0 * Scale),
              !.NC = Val(nC_0 * Scale),
              !.tau = Val(tau_now(tau_0, tau_deg, nB_0 * Scale))]

\* (variant: the inputs read from the previous row)
InputRowPrevious(i) == i - 1

\* the row whose Temperature and Injection drive the step of row i
InputRow(i) == i

\* (variant: the step assigns the row it read)
TargetRowPrevious(i) == i - 1

\* the row the step of row i assigns
TargetRow(i) == i

\* the instantaneous change in NA, NB and NC, in Scale / RateDen per second
dN_Adt(k_AB, k_BA, n_A, n_B, x_ab, x_ba) ==
  (k_BA * n_B * x_ba) - (k_AB * n_A * x_ab)

\* (variant: the C -> B inflow left out of dNB/dt)
dN_BdtNoCB(k_AB, k_BA, k_BC, k_CB, n_A, n_B, n_C, x_ab, x_ba, x_bc) ==
  (k_AB * n_A * x_ab) - ((k_BA * x_ba + k_BC * x_bc) * n_B)

dN_Bdt(k_AB, k_BA, k_BC, k_CB, n_A, n_B, n_C, x_ab, x_ba, x_bc) ==
  (k_AB * n_A * x_ab) + (k_CB * n_C) - ((k_BA * x_ba + k_BC * x_bc) * n_B)

\* (variant: the carrier factor applied to the C -> B term as well)
dN_CdtCarrierOnCB(k_BC, k_CB, n_B, n_C, x_bc) ==
  (k_BC * n_B * x_bc) - (k_CB * n_C * x_bc)

dN_Cdt(k_BC, k_CB, n_B, n_C, x_bc) ==
  (k_BC * n_B * x_bc) - (k_CB * n_C)

\* (variant: the spacing of the first two rows used for every step)
t_stepUniform(ts, i) == Row(ts, 1).Datetime - Row(ts, 0).Datetime

\* seconds between row i-1 and row i
t_step(ts, i) == Row(ts, i).Datetime - Row(ts, i - 1).Datetime

\* n + dN/dt * t_step, the rate in 1/RateDen per second
Euler(n, dNdt, dt) == n + (dNdt * dt) \div RateDen

\* the reaction constants and carrier factors of one step: the lifetime tau
\* of the previous row's NB, and the step's own temperature and injection
Kinetics(tau, temperature, injection) ==
  LET jsc == calculate_jsc_from_tau_cp(tau)
      mp == mechanism_params
  IN  [k_AB |-> k_ij(mp.v_ab, mp.ea_ab, temperature),
       k_BA |-> k_ij(mp.v_ba, mp.ea_ba, temperature),
       k_BC |-> k_ij(mp.v_bc, mp.ea_bc, temperature),
       k_CB |-> k_ij(mp.v_cb, mp.ea_cb, temperature),
       x_ab |-> carrier_factor(tau, "ab", temperature, injection, jsc, mp),
       x_ba |-> carrier_factor(tau, "ba", temperature, injection, jsc, mp),
       x_bc |-> carrier_factor(tau, "bc", temperature, injection, jsc, mp)]

\* the populations of row i from row i-1 and row i's own inputs
NextDefects(ts, i) ==
  LET n_A == Num(Row(ts, i - 1).NA)
      n_B == Num(Row(ts, i - 1).NB)
      n_C == Num(Row(ts, i - 1).NC)
      tau == tau_now(tau_0, tau_deg, n_B)
      temperature == Row(ts, InputRow(i)).Temperature
      injection == Row(ts, InputRow(i)).Injection
      kx == Kinetics(tau, temperature, injection)
      dt == t_step(ts, i)
  IN  [NA |-> Euler(n_A, dN_Adt(kx.k_AB, kx.k_BA, n_A, n_B,
                                kx.x_ab, kx.x_ba), dt),
       NB |-> Euler(n_B, dN_Bdt(kx.k_AB, kx.k_BA, kx.k_BC, kx.k_CB,
                                n_A, n_B, n_C, kx.x_ab, kx.x_ba, kx.x_bc), dt),
       NC |-> Euler(n_C, dN_Cdt(kx.k_BC, kx.k_CB, n_B, n_C, kx.x_bc), dt)]

\* (variant: the loop's lifetime, of the previous row's NB, kept per row)
TauColumnOfPreviousRow(ts) ==
  [i \in 1..Len(ts) |->
     [ts[i] EXCEPT !.tau =
        IF i = 1 THEN ts[i].tau
        ELSE Val(tau_now(tau_0, tau_deg, Num(ts[i - 1].NB)))]]

\* "timesteps['tau'] = letid.tau_now(tau_0, tau_deg, timesteps['NB'])"
TauColumn(ts) ==
  [i \in 1..Len(ts) |->
     [ts[i] EXCEPT !.tau =
        IF IsNaN(ts[i].NB) THEN NaN
        ELSE Val(tau_now(tau_0, tau_deg, Num(ts[i].NB)))]]


\* (variant: the exception is caught and the record handed back as it is)
RaiseHandsBackRecord(at) ==
  /\ pc' = "done"
  /\ error' = [kind |-> "DomainError", index |-> at]
  /\ result' = timesteps
  /\ UNCHANGED <<timesteps, index>>

\* an exception leaves the loop and the run: nothing is handed back
Raise(at) ==
  /\ pc' = "error"
  /\ error' = [kind |-> "DomainError", index |-> at]
  /\ UNCHANGED <<timesteps, index, result>>

\* calc_regeneration_time(timesteps, x): the time from row 0 to the first of
\* the rows whose NC is x; positional indexer 0 of an empty selection is out
\* of bounds
calc_regeneration_time(ts, x) ==
  LET hits == {i \in 1..Len(ts) :
                 ~IsNaN(ts[i].NC) /\ Num(ts[i].NC) = x * Scale}
      first == CHOOSE i \in hits : \A j \in hits : i <= j
  IN  IF hits = {} THEN [kind |-> "IndexError", time |-> 0]
      ELSE [kind |-> "time", time |-> ts[first].Datetime - ts[1].Datetime]

(* ------------------ nothing but the part looked at -------------------- *)

\* no lab run and no record outside one
NoRun ==
  /\ tau_0 = 115 /\ tau_deg = 55
  /\ nA_0 = Percent /\ nB_0 = 0 /\ nC_0 = 0
  /\ mechanism_params = CHOOSE m \in Mechanisms : m.v_ab = 1 /\ m.v_ba = 1
                                                 /\ m.v_bc = 1 /\ m.v_cb = 1
  /\ timesteps = <<>>
  /\ index = 0
  /\ pc = "none"
  /\ error = [kind |-> "none", index |-> 0]
  /\ result = NoResult
  /\ regen = [x |-> 0, kind |-> "none", time |-> 0]
  /\ cell_area = CellArea
  /\ per_row = NoResult
  /\ energy_loss = NaN

\* GeospatialScenario.pipeline = {}: a dictionary is a sequence of entries
\* with their keys
NoJob == <<>>

\* GeospatialScenario.results = None
NoGeoResults == [none |-> TRUE, func |-> "None", data |-> <<>>]

\* no dask task
NoTasks ==
  [running |-> FALSE, func |-> "None", blocks |-> <<>>, done |-> <<>>,
   log |-> <<>>]

NoGeoCall ==
  [op |-> "none", func |-> "None", params |-> <<>>, outcome |-> "ok"]

\* no GeospatialScenario
NoGeospatial ==
  /\ geo_pipeline = NoJob
  /\ geo_results = NoGeoResults
  /\ weather_data = <<>>
  /\ meta_data = <<>>
  /\ dask = NoTasks
  /\ geo_call = NoGeoCall

\* temperature.module not called
NoTemperature ==
  [called |-> FALSE, weather_df |-> <<>>, meta |-> [wind_height |-> <<>>],
   poa |-> <<>>, conf |-> "", temp_model |-> "", model_args |-> "None",
   outcome |-> "none", value |-> <<>>]

\* neither read_h5 nor get_NSRDB called
NoFrame ==
  [op |-> "none", files |-> {}, attributes |-> "None", outcome |-> "none",
   columns |-> <<>>]

\* no call of a library function outside a scenario
NoLibrary ==
  /\ temp_call = NoTemperature
  /\ nsrdb = <<>>
  /\ frame = NoFrame

(* ---------------------- pvdeg.scenario.Scenario ----------------------- *)
(* Python objects: a list or dictionary is an object of the heap, named by *)
(* a reference; an attribute holds the reference, not the contents.  The   *)
(* default values of the parameters modules=[] and pipeline=OrderedDict()  *)
(* of Scenario.__init__ are objects created once, when the def statement   *)
(* is executed.                                                            *)

\* the Scenario objects a program creates
ScenarioNames == {"a", "b"}

\* the objects bound to the defaults of __init__'s modules and pipeline
DefaultModules == <<"default", "modules">>

DefaultPipeline == <<"default", "pipeline">>

\* the list and dictionary a caller creates to pass them to __init__ of x
OwnModules(x) == <<x, "modules">>

OwnPipeline(x) == <<x, "pipeline">>

Refs ==
  {DefaultModules, DefaultPipeline}
    \cup {OwnModules(x) : x \in ScenarioNames}
    \cup {OwnPipeline(x) : x \in ScenarioNames}

\* arguments of addModule
ModuleNames == {"m1", "m2"}

Rackings == {"open_rack_glass_polymer", "open_rack_glass_glass"}

\* material names asked for: one of data/materials.json, one that is not
Materials == {"EVA", "unobtainium"}

\* the jobs' functions, and the func=None of addJob's default
Funcs == {"standards.standoff", "humidity.module"}

NoFunc == "None"

\* a func argument that is not a function: the function's name as a string
NotCallable == "'standoff'"

\* callable(func)
callable(func) == func \in Funcs

\* the func_params arguments of addJob: dictionaries as sequences of
\* (key, value) pairs; the default {}, a tilt, and a conf
ParamArgs ==
  {<<>>, << <<"tilt", "20">> >>, << <<"conf", "open_rack_glass_glass">> >>}

\* signature(func).parameters.keys()
Parameters(func) ==
  IF func = "standards.standoff"
  THEN {"weather_df", "meta", "tilt", "temp_model", "conf_0", "conf_inf"}
  ELSE {"weather_df", "meta", "tilt", "temp_model", "conf"}

\* a pipeline holds at most MaxJobs jobs
MaxJobs == 2

\* a program makes at most MaxCalls calls on its scenarios
MaxCalls == 3

JobIds == 1..MaxJobs

\* utils._read_material(name): the parameters of a material of the list; it
\* raises for a name that is not in it
MaterialFound(name) == name = "EVA"

_read_material(name) == [name |-> name]

\* (variant: any id, in use or not)
any_id(pipeline) == JobIds

\* utils.new_id(pipeline): the ids a new job can get, none of them in use
new_id(pipeline) ==
  JobIds \ {pipeline[i].id : i \in 1..Len(pipeline)}

\* self.results = None
NoResults == [none |-> TRUE, dict |-> [k \in {} |-> 0]]

\* the object before __init__
NoScenario ==
  [created |-> FALSE, path |-> <<>>, modules |-> DefaultModules,
   pipeline |-> DefaultPipeline, results |-> NoResults]

NoModule ==
  [module_name |-> "", racking |-> "", material_params |-> [name |-> ""],
   temp_model |-> "", model_kwarg |-> <<>>, irradiance_kwarg |-> <<>>]

\* the call last made: the method, the object, the module dictionary or the
\* function it was given, how it ended, and the number of calls made so far
NoCall ==
  [op |-> "none", self |-> "", module |-> NoModule, func |-> NoFunc,
   outcome |-> "ok", n |-> 0,
   args |-> [api_key |-> <<>>, email |-> <<>>, flag |-> FALSE,
             params |-> <<>>],
   trace |-> <<>>]

\* no Scenario created yet
NoScenarios ==
  /\ heap = [r \in Refs |-> <<>>]
  /\ scenarios = [x \in ScenarioNames |-> NoScenario]
  /\ call = NoCall
  /\ cwd = <<>>
  /\ files = {}

\* the attributes of an object before __init__ (None is the empty cell)
\* a Python value that is None, a tuple or a list
PyNone == [type |-> "NoneType", items |-> <<>>]

PyTuple(items) == [type |-> "tuple", items |-> items]

PyList(items) == [type |-> "list", items |-> items]

NoAttrs ==
  [name |-> "", hpc |-> FALSE, gids |-> <<>>, lat_long |-> PyNone,
   email |-> <<>>, api_key |-> <<>>]

\* no scenario dumped or loaded
NoPersist ==
  /\ attrs = [x \in ScenarioNames |-> NoAttrs]
  /\ disk = {}

\* self.modules and self.pipeline: the contents of the objects referred to
ModulesOf(x) == heap[scenarios[x].modules]

PipelineOf(x) == heap[scenarios[x].pipeline]

\* [mod['module_name'] for mod in self.modules]
old_modules(mods) == [i \in 1..Len(mods) |-> mods[i].module_name]

\* list.index(v): the first position of v
ListIndex(seq, v) ==
  CHOOSE i \in 1..Len(seq) : seq[i] = v /\ \A j \in 1..(i - 1) : seq[j] # v

\* list.pop(i)
ListPop(seq, i) == SubSeq(seq, 1, i - 1) \o SubSeq(seq, i + 1, Len(seq))

\* the keys of a dictionary kept as a sequence of entries with ids
Ids(pipeline) == {pipeline[i].id : i \in 1..Len(pipeline)}

\* self.pipeline[job_id] = job_dict: a new key is added at the end, the
\* value of a key already there is replaced
DictSet(pipeline, job_id, job_dict) ==
  IF job_id \in Ids(pipeline)
  THEN [i \in 1..Len(pipeline) |->
          IF pipeline[i].id = job_id THEN job_dict ELSE pipeline[i]]
  ELSE Append(pipeline, job_dict)

\* a dictionary of keyword arguments as a set of (key, value) pairs
Pairs(dict) == {dict[i] : i \in 1..Len(dict)}

Keys(pairs) == {p[1] : p \in pairs}

\* {**first, **second}: the entries of second replace those of first
Update(first, second) ==
  {p \in first : p[1] \notin Keys(second)} \cup second

\* lines 453-463 of run: weather_dict, temperature_args and the material
\* parameters of a module in one dictionary
combined(module) ==
  LET weather_dict == {<<"weather_df", "None">>, <<"meta", "None">>}
      temperature_args ==
        Update({<<"temp_model", module.temp_model>>,
                <<"model_kwarg", "{}">>, <<"irradiance_kwarg", "{}">>,
                <<"conf", module.racking>>},
               Pairs(module.irradiance_kwarg))
      material_params == {<<"name", module.material_params.name>>}
  IN  Update(Update(weather_dict, temperature_args), material_params)

\* (variant: every entry of combined is passed on)
AllArgs(module, func) == combined(module)

\* line 466: only the arguments that the function takes
func_args(module, func) ==
  {p \in combined(module) : p[1] \in Parameters(func)}

\* func(**params, **func_args) raises TypeError for a keyword given twice
\* and for a keyword of params that the function does not take
CallRaises(func, params, module) ==
  \/ Keys(Pairs(params)) \cap Keys(func_args(module, func)) # {}
  \/ ~(Keys(Pairs(params)) \subseteq Parameters(func))

\* lines 447-472: the calls of run in the order of its two loops, the
\* k-th call being job j of module m
Calls(modules, pipeline) ==
  [k \in 1..(Len(modules) * Len(pipeline)) |->
     LET m == ((k - 1) \div Len(pipeline)) + 1
         j == ((k - 1) % Len(pipeline)) + 1
     IN  [module |-> modules[m], id |-> pipeline[j].id,
          job |-> pipeline[j].job, params |-> pipeline[j].params]]

\* (variant: the entry of the same name stays in the list)
ReplacedKeepsOld(mods, module_name) == mods

\* lines 281-285: the list without the entry of the same name, if it has one
Replaced(mods, module_name) ==
  IF \E i \in 1..Len(mods) : old_modules(mods)[i] = module_name
  THEN ListPop(mods, ListIndex(old_modules(mods), module_name))
  ELSE mods

\* the result of a job's function called with keyword arguments
JobResult(func, kwargs) == <<func, kwargs>>

\* the object after Scenario(...) in the working directory dir: name and
\* path left at their defaults, modules and pipeline either left at their
\* defaults or given as new empty objects
Constructed(x, own, dir) ==
  [created |-> TRUE,
   path |-> Append(dir, "pvd_job_date"),
   modules |-> IF own THEN OwnModules(x) ELSE DefaultModules,
   pipeline |-> IF own THEN OwnPipeline(x) ELSE DefaultPipeline,
   results |-> NoResults]

\* the next call, while the program has calls left to make
NextCall(op, x) ==
  [NoCall EXCEPT !.op = op, !.self = x, !.n = call.n + 1]

\* Scenario.addModule(module_name, racking, material)
addModule(x) ==
  /\ scenarios[x].created
  /\ call.n < MaxCalls
  /\ \E module_name \in ModuleNames, racking \in Rackings,
        material \in Materials :
       LET module ==
             [module_name |-> module_name, racking |-> racking,
              material_params |-> _read_material(material),
              temp_model |-> "sapm", model_kwarg |-> <<>>,
              irradiance_kwarg |-> <<>>]
       IN  IF ~MaterialFound(material)
           THEN /\ call' = [NextCall("addModule", x) EXCEPT
                                          !.module = module,
                                          !.outcome = "Material Not Found"]
                /\ UNCHANGED heap
           ELSE /\ heap' =
                     [heap EXCEPT ![scenarios[x].modules] =
                        Append(Replaced(@, module_name), module)]
                /\ call' = [NextCall("addModule", x) EXCEPT
                                          !.module = module]
  /\ UNCHANGED <<scenarios, cwd, files, letidVars, geoVars, persistVars,
                 libraryVars>>

\* Scenario.addJob(func, func_params)
addJob(x) ==
  /\ scenarios[x].created
  /\ call.n < MaxCalls
  /\ Len(PipelineOf(x)) < MaxJobs
  /\ \E func \in Funcs \cup {NoFunc, NotCallable},
        func_params \in ParamArgs :
       IF func = NoFunc \/ ~callable(func)
       THEN /\ func_params = <<>>
            /\ call' = [NextCall("addJob", x) EXCEPT
                          !.func = func, !.args.params = func_params,
                          !.outcome = "FAILED"]
            /\ UNCHANGED heap
       ELSE \E job_id \in new_id(PipelineOf(x)) :
              /\ heap' =
                   [heap EXCEPT ![scenarios[x].pipeline] =
                      DictSet(@, job_id,
                              [id |-> job_id, job |-> func,
                               params |-> func_params])]
              /\ call' = [NextCall("addJob", x) EXCEPT
                            !.func = func, !.args.params = func_params]
  /\ UNCHANGED <<scenarios, cwd, files, letidVars, geoVars, persistVars,
                 libraryVars>>

\* Scenario.run(): with modules, every job for every module, called with
\* its params and the module's arguments, the results stored by module
\* name and job id and written to csv files; a call that raises ends run
\* before anything is stored.  Without
\* modules the first pass of the loop reads module_result, and an empty
\* pipeline leads to reading pipeline_results: both are local names that
\* only the branch with modules binds, and reading them raises
\* UnboundLocalError before self.results is assigned.
run(x) ==
  /\ scenarios[x].created
  /\ call.n < MaxCalls
  /\ LET modules == ModulesOf(x)
         pipeline == PipelineOf(x)
         names == {modules[i].module_name : i \in 1..Len(modules)}
         ids == {pipeline[i].id : i \in 1..Len(pipeline)}
         job(id) == (CHOOSE i \in 1..Len(pipeline) : pipeline[i].id = id)
         module(m) ==
           modules[CHOOSE i \in 1..Len(modules) : modules[i].module_name = m]
         calls == Calls(modules, pipeline)
         raises(k) ==
           CallRaises(calls[k].job, calls[k].params, calls[k].module)
         made == {k \in 1..Len(calls) : \A l \in 1..(k - 1) : ~raises(l)}
         trace == [k \in 1..Cardinality(made) |->
                     <<calls[k].module.module_name, calls[k].id>>]
     IN  IF modules # <<>> /\ \E k \in 1..Len(calls) : raises(k)
         THEN /\ call' = [NextCall("run", x) EXCEPT
                            !.outcome = "TypeError", !.trace = trace]
              /\ UNCHANGED <<scenarios, files>>
         ELSE IF modules # <<>>
         THEN /\ scenarios' =
                   [scenarios EXCEPT ![x].results =
                      [none |-> FALSE,
                       dict |->
                         [m \in names |->
                            [id \in ids |->
                               JobResult(
                                 pipeline[job(id)].job,
                                 Update(Pairs(pipeline[job(id)].params),
                                        func_args(module(m),
                                                  pipeline[job(id)].job)))]]]]
              /\ files' = files
                   \cup {cwd \o <<"pipeline_results", m>> : m \in names}
                   \cup {cwd \o <<"pipeline_results", m, id>> :
                           m \in names, id \in ids}
              /\ call' = [NextCall("run", x) EXCEPT !.trace = trace]
         ELSE /\ call' = [NextCall("run", x) EXCEPT
                                        !.outcome = "UnboundLocalError"]
              /\ UNCHANGED <<scenarios, files>>
  /\ UNCHANGED <<heap, cwd, letidVars, geoVars, persistVars, libraryVars>>

\* a = Scenario(...); b = Scenario(...): each makes the directory
\* pvd_job_<date> in the working directory, which then changes to it
ScenarioStart ==
  /\ heap = [r \in Refs |-> <<>>]
  /\ \E own_a \in BOOLEAN, own_b \in BOOLEAN :
       scenarios =
         [x \in ScenarioNames |->
            IF x = "a" THEN Constructed(x, own_a, <<>>)
            ELSE Constructed(x, own_b, <<"pvd_job_date">>)]
  /\ call = NoCall
  /\ cwd = <<"pvd_job_date", "pvd_job_date">>
  /\ files = {<<"pvd_job_date">>, <<"pvd_job_date", "pvd_job_date">>}
  /\ NoRun
  /\ NoGeospatial
  /\ NoPersist
  /\ NoLibrary

ScenarioNext ==
  \E x \in ScenarioNames :
    \/ addModule(x)
    \/ addJob(x)
    \/ run(x)

ScenarioSpec == ScenarioStart /\ [][ScenarioNext]_vars

(* -------------- Scenario: credentials, dump and load_json ------------- *)
(* Scenario a is built by the program; b is the object under construction *)
(* in b = Scenario(file=..., email=..., api_key=...).                     *)

\* the name argument of __init__: None or a name
NameArgs == {<<>>, <<"s1">>}

\* filedate, the name of a scenario that is given none (lines 93-97)
NameOf(name) == IF name = <<>> THEN "date" ELSE name[1]

\* f"pvd_job_{self.name}"
JobDir(name) == IF name = "date" THEN "pvd_job_date" ELSE "pvd_job_s1"

\* an email or an api key: None or a string
Emails == {<<>>, <<"user@nrel.gov">>}

ApiKeys == {<<>>, <<"DEMO_KEY">>}

\* the lat_long arguments of addLocation: None, a coordinate pair, the
\* same as a list, and a tuple of the wrong length
LatLongs ==
  {PyNone, PyTuple(<<39, -105>>), PyList(<<39, -105>>), PyTuple(<<39>>)}

\* f"{x.__module__}.{x.__name__}" of a function of the package
get_qualified(func) ==
  [module |-> IF func = "standards.standoff" THEN "pvdeg.standards"
              ELSE "pvdeg.humidity",
   name |-> IF func = "standards.standoff" THEN "standoff" ELSE "module"]

\* getattr(import_module(module_name), func_name)
getattr(qualified) ==
  IF qualified.module = "pvdeg.standards" /\ qualified.name = "standoff"
  THEN "standards.standoff"
  ELSE IF qualified.module = "pvdeg.humidity" /\ qualified.name = "module"
  THEN "humidity.module"
  ELSE NoFunc

\* the object x with the contents of its list and dictionary
Self(x) ==
  [name |-> attrs[x].name, hpc |-> attrs[x].hpc,
   path |-> scenarios[x].path, modules |-> ModulesOf(x),
   gids |-> attrs[x].gids, lat_long |-> attrs[x].lat_long,
   pipeline |-> PipelineOf(x), email |-> attrs[x].email,
   api_key |-> attrs[x].api_key]

\* lines 624-629: the pipeline with the qualified name of each job's
\* function in place of the function
modified_pipeline(pipeline) ==
  [i \in 1..Len(pipeline) |->
     [id |-> pipeline[i].id, params |-> pipeline[i].params,
      qualified_function |-> get_qualified(pipeline[i].job)]]

\* (variant: the credentials are among the attributes whatever the flag)
ToDictKeysAll(api_key) ==
  {"name", "hpc", "path", "modules", "gids", "lat_long", "pipeline",
   "email", "api_key"}

\* the keys of the dictionary of Scenario._to_dict(api_key)
ToDictKeys(api_key) ==
  {"name", "hpc", "path", "modules", "gids", "lat_long", "pipeline"}
    \cup (IF api_key THEN {"email", "api_key"} ELSE {})

\* Scenario._to_dict(self, api_key)
_to_dict(self, api_key) ==
  [k \in ToDictKeys(api_key) |->
     CASE k = "name" -> <<self.name>>
       [] k = "hpc" -> <<self.hpc>>
       [] k = "path" -> self.path
       [] k = "modules" -> self.modules
       [] k = "gids" -> self.gids
       [] k = "lat_long" -> self.lat_long
       [] k = "pipeline" -> modified_pipeline(self.pipeline)
       [] k = "email" -> self.email
       [] k = "api_key" -> self.api_key]

\* json.dumps: a tuple is written as an array, which reads back as a list
json_dumps(dict) ==
  [k \in DOMAIN dict |->
     IF k = "lat_long" /\ dict[k].type = "tuple"
     THEN PyList(dict[k].items) ELSE dict[k]]

\* os.path.join(path, f"{self.name}.json")
Target(path, name) == path \o <<name, "json">>

\* lines 181-189 of addLocation: a list becomes a tuple; a tuple of two
\* numbers is accepted, anything else raises ValueError
AsTuple(lat_long) ==
  IF lat_long.type = "list" THEN PyTuple(lat_long.items) ELSE lat_long

ValidLatLong(lat_long) ==
  AsTuple(lat_long).type = "tuple" /\ Len(AsTuple(lat_long).items) = 2

\* Scenario.addLocation(lat_long): the coordinate is stored, and then
\* pvdeg.weather.get is called, which weather.py does not define
addLocation(x) ==
  /\ scenarios[x].created
  /\ call.n < MaxCalls
  /\ \E lat_long \in LatLongs :
       IF ValidLatLong(lat_long)
       THEN /\ attrs' = [attrs EXCEPT ![x].lat_long = AsTuple(lat_long)]
            /\ call' = [NextCall("addLocation", x) EXCEPT
                          !.outcome = "AttributeError"]
       ELSE /\ call' = [NextCall("addLocation", x) EXCEPT
                          !.outcome = "ValueError"]
            /\ UNCHANGED attrs
  /\ UNCHANGED <<heap, scenarios, cwd, files, disk, letidVars, geoVars,
                 libraryVars>>

\* Scenario.dump(api_key): the json of _to_dict written to
\* <path>/<name>.json
dump(x) ==
  /\ scenarios[x].created
  /\ call.n < MaxCalls
  /\ \E api_key \in BOOLEAN :
       LET target == Target(scenarios[x].path, attrs[x].name)
       IN  /\ disk' = {f \in disk : f.target # target}
                        \cup {[target |-> target,
                               json |-> json_dumps(
                                          _to_dict(Self(x), api_key))]}
           /\ call' = [NextCall("dump", x) EXCEPT !.args.flag = api_key]
  /\ UNCHANGED <<heap, scenarios, cwd, files, attrs, letidVars, geoVars,
                 libraryVars>>

\* truth value of an attribute that is None or a string
Truthy(v) == v # <<>> /\ v # <<"">>

\* lines 690-692: "if not self.email and self.api_key", that is
\* (not self.email) and self.api_key
Restored(self, email, api_key) ==
  IF ~Truthy(self.email) /\ Truthy(self.api_key)
  THEN [self EXCEPT !.email = email, !.api_key = api_key]
  ELSE self

\* Scenario.restore_credentials(email, api_key)
restore_credentials(x) ==
  /\ scenarios[x].created
  /\ call.n < MaxCalls
  /\ \E email \in Emails \ {<<>>}, api_key \in ApiKeys \ {<<>>} :
       /\ attrs' = [attrs EXCEPT ![x] = Restored(@, email, api_key)]
       /\ call' = [NextCall("restore_credentials", x) EXCEPT
                     !.args.email = email, !.args.api_key = api_key]
  /\ UNCHANGED <<heap, scenarios, cwd, files, disk, letidVars, geoVars,
                 libraryVars>>

\* lines 558-563 of load_json: each task gets its function back
process_pipeline(pipeline) ==
  [i \in 1..Len(pipeline) |->
     [id |-> pipeline[i].id, params |-> pipeline[i].params,
      job |-> getattr(pipeline[i].qualified_function)]]

\* b = Scenario(file=target, email=..., api_key=...): __init__ makes the
\* directory pvd_job_<date> and changes to it, then load_json reads the
\* attributes and ends with addLocation(lat_long), which raises ValueError
\* for the None of a scenario dumped without a location and otherwise
\* fails in the call of pvdeg.weather.get: the constructor raises and
\* there is no object b (a function that getattr does not find would end
\* it earlier)
load(x) ==
  /\ ~scenarios[x].created
  /\ call.n < MaxCalls
  /\ \E f \in disk, email \in Emails, api_key \in ApiKeys :
       LET data == f.json
           dir == Append(cwd, JobDir("date"))
       IN  /\ (email = <<>>) <=> (api_key = <<>>)
           /\ cwd' = dir
           /\ files' = files \cup {dir}
           /\ call' = [NextCall("load", x) EXCEPT
                         !.args.email = email, !.args.api_key = api_key,
                         !.outcome =
                           IF \E i \in 1..Len(data["pipeline"]) :
                                process_pipeline(data["pipeline"])[i].job
                                  = NoFunc
                           THEN "AttributeError"
                           ELSE IF ValidLatLong(data["lat_long"])
                           THEN "AttributeError"
                           ELSE "ValueError"]
  /\ UNCHANGED <<heap, scenarios, attrs, disk, letidVars, geoVars,
                 libraryVars>>

\* a = Scenario(name=..., hpc=..., email=..., api_key=...)
PersistStart ==
  /\ heap = [r \in Refs |-> <<>>]
  /\ \E name \in NameArgs, hpc \in BOOLEAN, email \in Emails,
        api_key \in ApiKeys :
       /\ scenarios =
            [x \in ScenarioNames |->
               IF x = "a"
               THEN [Constructed(x, FALSE, <<>>) EXCEPT
                       !.path = <<JobDir(NameOf(name))>>]
               ELSE NoScenario]
       /\ attrs =
            [x \in ScenarioNames |->
               IF x = "a"
               THEN [NoAttrs EXCEPT !.name = NameOf(name), !.hpc = hpc,
                                    !.email = email, !.api_key = api_key]
               ELSE NoAttrs]
       /\ cwd = <<JobDir(NameOf(name))>>
       /\ files = {<<JobDir(NameOf(name))>>}
  /\ call = NoCall
  /\ disk = {}
  /\ NoRun
  /\ NoGeospatial
  /\ NoLibrary

PersistNext ==
  \/ addModule("a")
  \/ addJob("a")
  \/ addLocation("a")
  \/ dump("a")
  \/ restore_credentials("a")
  \/ load("b")

PersistSpec == PersistStart /\ [][PersistNext]_vars

(* ------------------------ pvdeg.temperature --------------------------- *)

\* a weather frame has at most MaxTimesteps rows
MaxTimesteps == 2

\* the rows of a weather frame: temp_air and wind_speed
WeatherRows == [temp_air : {20, 30}, wind_speed : {1}]

WeatherFrames ==
  UNION {[1..n -> WeatherRows] : n \in 1..MaxTimesteps}

\* the metadata: with or without a wind_height
Metas == [wind_height : {<<>>, <<10>>}]

\* the arguments given for the parameters that have defaults
Confs == {"open_rack_glass_polymer", "open_rack_glass_glass", "freestanding"}

TempModels == {"sapm", "pvsyst", "faiman"}

ModelArgs == {"None", "{}"}

\* the configurations of pvlib's TEMPERATURE_MODEL_PARAMETERS[temp_model]
TemperatureModelParameters(temp_model) ==
  IF temp_model = "sapm"
  THEN {"open_rack_glass_glass", "close_mount_glass_glass",
        "open_rack_glass_polymer", "insulated_back_glass_polymer"}
  ELSE {"freestanding", "insulated"}

\* pvdeg.spectral.poa_irradiance(weather_df, meta): one row per timestep
poa_irradiance(weather_df) == [i \in 1..Len(weather_df) |-> "poa_global"]

\* lines 131-134: the factor on the wind speed, 1 without a wind_height
\* and otherwise what _wind_speed_factor gives for the model
wind_speed_factor(temp_model, meta) ==
  IF meta.wind_height = <<>> THEN "1" ELSE "_wind_speed_factor"

\* def map_model(temp_model:str, cell_or_mod:str): two parameters, neither
\* with a default
map_model_parameters == <<"temp_model", "cell_or_mod">>

\* a call with positional arguments only: TypeError unless there is one
\* for every parameter
Binds(parameters, arguments) == Len(arguments) = Len(parameters)

\* temperature.module(weather_df, meta, poa, conf, temp_model, wind_factor,
\* model_args), statement by statement: the lookup of the parameters (line
\* 127), the irradiance (130), the call map_model(temp_model) (144), the
\* loop over model_args.keys() (148), the sapm branch (157) and the return
\* of module_temperature, which only that branch binds (167)
module(weather_df, meta, poa, conf, temp_model, model_args) ==
  LET poa_df == IF poa = <<>> THEN poa_irradiance(weather_df) ELSE poa
  IN  IF /\ temp_model \in {"sapm", "pvsyst"}
         /\ conf \notin TemperatureModelParameters(temp_model)
      THEN [outcome |-> "KeyError", value |-> <<>>]
      ELSE IF ~Binds(map_model_parameters, <<temp_model>>)
      THEN [outcome |-> "TypeError", value |-> <<>>]
      ELSE IF model_args = "None"
      THEN [outcome |-> "AttributeError", value |-> <<>>]
      ELSE IF temp_model = "sapm"
      THEN [outcome |-> "ok",
            value |-> [i \in 1..Len(weather_df) |->
                         <<poa_df[i], weather_df[i],
                           wind_speed_factor(temp_model, meta)>>]]
      ELSE [outcome |-> "UnboundLocalError", value |-> <<>>]

\* the weather frame and the metadata of a site
TemperatureStart ==
  /\ \E weather_df \in WeatherFrames, meta \in Metas :
       temp_call = [NoTemperature EXCEPT !.weather_df = weather_df,
                                         !.meta = meta]
  /\ nsrdb = <<>>
  /\ frame = NoFrame
  /\ NoRun
  /\ NoScenarios
  /\ NoGeospatial
  /\ NoPersist

\* temp_mod = pvdeg.temperature.module(weather_df=WEATHER, meta=META, ...)
TemperatureModule ==
  /\ ~temp_call.called
  /\ \E given \in BOOLEAN, conf \in Confs, temp_model \in TempModels,
        model_args \in ModelArgs :
       LET poa == IF given THEN poa_irradiance(temp_call.weather_df)
                  ELSE <<>>
           res == module(temp_call.weather_df, temp_call.meta, poa, conf,
                         temp_model, model_args)
       IN  temp_call' =
             [temp_call EXCEPT !.called = TRUE, !.poa = poa, !.conf = conf,
                               !.temp_model = temp_model,
                               !.model_args = model_args,
                               !.outcome = res.outcome,
                               !.value = res.value]
  /\ UNCHANGED <<nsrdb, frame, letidVars, scenarioVars, geoVars,
                 persistVars>>

TemperatureNext == TemperatureModule

TemperatureSpec == TemperatureStart /\ [][TemperatureNext]_vars

(* -------------------------- pvdeg.weather ----------------------------- *)
(* An h5 file is the list of its datasets, in the order in which the file *)
(* lists them; nsrdb is the list of the files that glob finds.            *)

\* glob finds at most MaxFiles files
MaxFiles == 2

\* the datasets a file can hold
DatasetNames == {"meta", "tmy_year_short", "ghi"}

RECURSIVE ListsOf(_)
\* the lists without repetition of elements of a set
ListsOf(names) ==
  {<<>>} \cup UNION {{<<n>> \o l : l \in ListsOf(names \ {n})} : n \in names}

H5Files == ListsOf(DatasetNames)

\* the attributes argument: None or a list of dataset names
AttributeArgs == {"None", "['ghi']"}

\* the elements of a list
Elements(list) == {list[i] : i \in 1..Len(list)}

\* list.remove(value) for a value that is in the list
Removed(list, value) == ListPop(list, ListIndex(list, value))

\* (variant: 'meta' alone is removed)
WithoutMeta(keys) ==
  IF "meta" \notin Elements(keys) THEN keys ELSE Removed(keys, "meta")

\* lines 129-134 and 242-247: attributes = list(dattr.keys()), then
\* remove('meta') and remove('tmy_year_short') inside one try block whose
\* ValueError branch passes: the first remove that fails ends the block
DefaultAttributes(keys) ==
  IF "meta" \notin Elements(keys) THEN keys
  ELSE IF "tmy_year_short" \notin Elements(Removed(keys, "meta"))
  THEN Removed(keys, "meta")
  ELSE Removed(Removed(keys, "meta"), "tmy_year_short")

\* the attributes asked for
Attributes(attributes, keys) ==
  IF attributes = "None" THEN DefaultAttributes(keys) ELSE <<"ghi">>

RECURSIVE KeysOfFiles(_, _)
\* lines 228-239: dattr[attr] = file for every dataset of every file; the
\* keys of dattr in the order in which they were first assigned
KeysOfFiles(fnames, i) ==
  IF i = 0 THEN <<>>
  ELSE LET before == KeysOfFiles(fnames, i - 1)
       IN  before \o SelectSeq(fnames[i],
                               LAMBDA d : d \notin Elements(before))

\* the frame, or the exception, given the datasets at hand: every column
\* is read from its dataset
Frame(attributes, keys) ==
  IF Elements(Attributes(attributes, keys)) \subseteq Elements(keys)
  THEN [outcome |-> "ok", columns |-> Attributes(attributes, keys)]
  ELSE [outcome |-> "raises: no such dataset", columns |-> <<>>]

\* weather.read_h5(gid, file, attributes): f.meta.loc[gid] needs the
\* metadata of the file
read_h5(file, attributes) ==
  IF "meta" \notin Elements(file)
  THEN [outcome |-> "raises: no meta", columns |-> <<>>]
  ELSE Frame(attributes, file)

\* weather.get_NSRDB(satellite, names, NREL_HPC, gid, attributes):
\* get_NSRDB_fnames raises FileNotFoundError when glob finds nothing, and
\* f['meta', gid] needs the metadata of the first file
get_NSRDB(nsrdb_fnames, attributes) ==
  IF Len(nsrdb_fnames) = 0
  THEN [outcome |-> "FileNotFoundError", columns |-> <<>>]
  ELSE IF "meta" \notin Elements(nsrdb_fnames[1])
  THEN [outcome |-> "raises: no meta", columns |-> <<>>]
  ELSE Frame(attributes, KeysOfFiles(nsrdb_fnames, Len(nsrdb_fnames)))

\* the files there are
WeatherStart ==
  /\ temp_call = NoTemperature
  /\ nsrdb \in UNION {[1..n -> H5Files] : n \in 0..MaxFiles}
  /\ frame = NoFrame
  /\ NoRun
  /\ NoScenarios
  /\ NoGeospatial
  /\ NoPersist

\* weather_df, meta = read_h5(gid, file, attributes)
ReadH5 ==
  /\ frame.op = "none"
  /\ \E i \in 1..Len(nsrdb), attributes \in AttributeArgs :
       LET res == read_h5(nsrdb[i], attributes)
       IN  frame' = [op |-> "read_h5", files |-> {i},
                     attributes |-> attributes, outcome |-> res.outcome,
                     columns |-> res.columns]
  /\ UNCHANGED <<temp_call, nsrdb, letidVars, scenarioVars, geoVars,
                 persistVars>>

\* weather_df, meta = get_NSRDB(satellite, names, NREL_HPC, gid, attributes)
GetNSRDB ==
  /\ frame.op = "none"
  /\ \E attributes \in AttributeArgs :
       LET res == get_NSRDB(nsrdb, attributes)
       IN  frame' = [op |-> "get_NSRDB", files |-> 1..Len(nsrdb),
                     attributes |-> attributes, outcome |-> res.outcome,
                     columns |-> res.columns]
  /\ UNCHANGED <<temp_call, nsrdb, letidVars, scenarioVars, geoVars,
                 persistVars>>

WeatherNext == ReadH5 \/ GetNSRDB

WeatherSpec == WeatherStart /\ [][WeatherNext]_vars

(* ------------- pvdeg.scenario.GeospatialScenario, geospatial ---------- *)
(* One GeospatialScenario with its locations added: weather_data is the    *)
(* dataset of the gids (a dask array cut into blocks of consecutive gids), *)
(* meta_data the frame with one row per gid, in the same gid order.        *)

\* the number of gids of the scenario
NGids == 3

Gids == 1..NGids

\* the weather of a gid (one value stands for its time series)
WeatherValues == {10, 20}

\* the functions asked of addJob: the three with a result template in
\* geospatial.template_parameters, one without, and func=None
GeoFuncs ==
  {"standards.standoff", "humidity.module", "letid.calc_letid_outdoors",
   "degradation.vantHoff_deg", NoFunc}

\* geospatial.template_parameters(func) returns a template (it raises
\* ValueError otherwise)
HasTemplate(func) ==
  func \in {"standards.standoff", "humidity.module",
            "letid.calc_letid_outdoors"}

\* run's test "func == pvdeg.standards.standoff or func ==
\* pvdeg.humidity.module"
RunsAnalysis(func) == func \in {"standards.standoff", "humidity.module"}

RECURSIVE Compositions(_)
\* the ways to cut n consecutive gids into blocks: sequences of block
\* lengths
Compositions(n) ==
  IF n = 0 THEN {<<>>}
  ELSE UNION {{<<k>> \o c : c \in Compositions(n - k)} : k \in 1..n}

RECURSIVE SumUpTo(_, _)
SumUpTo(lengths, b) ==
  IF b = 0 THEN 0 ELSE SumUpTo(lengths, b - 1) + lengths[b]

\* the position in the dataset of the k-th gid of block b
Position(blocks, b, k) == SumUpTo(blocks, b - 1) + k

\* func(weather_df=df_weather, meta=meta_gid): a function of its arguments
GidResult(func, df_weather, meta_gid) ==
  [func |-> func, weather |-> df_weather, meta |-> meta_gid]

\* (variant: the metadata row at the gid's position in its block)
MetaOfGidInBlock(meta_df, gid, k) == meta_df[k]

\* future_meta_df.loc[ds_gid["gid"].values[0]].to_dict(), for the k-th gid
\* of a block
MetaOfGid(meta_df, gid, k) ==
  meta_df[CHOOSE i \in 1..Len(meta_df) : meta_df[i].gid = gid]

\* geospatial.calc_gid for the k-th gid of block b of the dataset
calc_gid(ds, meta_df, func, b, k) ==
  LET ds_gid == ds.rows[Position(ds.blocks, b, k)]
      row == MetaOfGid(meta_df, ds_gid.gid, k)
  IN  GidResult(func, ds_gid.weather,
                [latitude |-> row.latitude, longitude |-> row.longitude])

RECURSIVE Flatten(_, _)
\* the blocks' results one after the other, in the order of the template
Flatten(done, b) ==
  IF b = 0 THEN <<>>
  ELSE Flatten(done, b - 1) \o [k \in 1..Len(done[b]) |-> done[b][k][1]]

\* lines 190-197 of geospatial.analysis: the results get the coordinates of
\* the metadata rows, position by position; of several results with one
\* coordinate the first is kept; the result is indexed by coordinate
Unstacked(stacked, meta_df) ==
  LET coord(i) == <<meta_df[i].latitude, meta_df[i].longitude>>
      kept == {i \in 1..Len(stacked) :
                 \A j \in 1..(i - 1) : coord(j) # coord(i)}
  IN  [c \in {coord(i) : i \in kept} |->
         stacked[CHOOSE i \in kept : coord(i) = c]]

GeoStart ==
  /\ geo_pipeline = NoJob
  /\ geo_results = NoGeoResults
  /\ \E w \in [Gids -> WeatherValues], blocks \in Compositions(NGids) :
       weather_data =
         [rows |-> [i \in Gids |-> [gid |-> i, weather |-> w[i]]],
          blocks |-> blocks]
  /\ meta_data =
       [i \in Gids |-> [gid |-> i, latitude |-> 30 + i,
                        longitude |-> -100 - i]]
  /\ dask = NoTasks
  /\ geo_call = NoGeoCall
  /\ NoScenarios
  /\ NoRun
  /\ NoPersist
  /\ NoLibrary

\* 'geospatial_job' in pipeline
HasJob(pipeline) ==
  \E i \in 1..Len(pipeline) : pipeline[i].key = "geospatial_job"

\* pipeline['geospatial_job']['job']
GeoJob(pipeline) ==
  pipeline[CHOOSE i \in 1..Len(pipeline) :
             pipeline[i].key = "geospatial_job"].job

\* (variant: the job is put into the pipeline there is, next to the ones
\* it holds)
Appended(pipeline, geo_job_dict) == pipeline \o geo_job_dict

\* self.pipeline = geo_job_dict: the attribute is bound to the new
\* dictionary, whatever it held
Rebound(pipeline, geo_job_dict) == geo_job_dict

\* GeospatialScenario.addJob(func, func_params): the pipeline becomes this
\* one job when the function has a result template; without one the
\* ValueError is returned, and naming the function in its message raises
\* AttributeError when func is None
GeoAddJob ==
  /\ ~dask.running
  /\ \E func \in GeoFuncs, func_params \in ParamArgs :
       LET geo_job_dict ==
             <<[key |-> "geospatial_job", job |-> func,
                params |-> func_params]>>
       IN  IF HasTemplate(func)
           THEN /\ geo_pipeline' = Rebound(geo_pipeline, geo_job_dict)
                /\ geo_call' = [op |-> "addJob", func |-> func,
                                params |-> func_params, outcome |-> "ok"]
           ELSE /\ geo_call' =
                     [op |-> "addJob", func |-> func,
                      params |-> func_params,
                      outcome |-> IF func = NoFunc THEN "AttributeError"
                                  ELSE "ValueError returned"]
                /\ UNCHANGED geo_pipeline
  /\ UNCHANGED <<geo_results, weather_data, meta_data, dask, letidVars,
                 scenarioVars,
                 persistVars, libraryVars>>

\* GeospatialScenario.run() up to the call of geospatial.analysis: KeyError
\* without a job; for standoff and humidity.module the blocks of the
\* dataset become dask tasks; for any other function nothing is computed
\* and run returns, results as they were
GeoRun ==
  /\ ~dask.running
  /\ IF ~HasJob(geo_pipeline)
     THEN /\ geo_call' = [NoGeoCall EXCEPT !.op = "run",
                                           !.outcome = "KeyError"]
          /\ UNCHANGED dask
     ELSE IF RunsAnalysis(GeoJob(geo_pipeline))
     THEN /\ dask' = [running |-> TRUE, func |-> GeoJob(geo_pipeline),
                      blocks |-> weather_data.blocks,
                      done |-> [b \in 1..Len(weather_data.blocks) |->
                                 [k \in 1..weather_data.blocks[b] |-> <<>>]],
                      log |-> <<>>]
          /\ geo_call' = [NoGeoCall EXCEPT !.op = "run",
                                           !.func = GeoJob(geo_pipeline),
                                           !.outcome = "running"]
     ELSE /\ geo_call' = [NoGeoCall EXCEPT !.op = "run",
                                           !.func = GeoJob(geo_pipeline)]
          /\ UNCHANGED dask
  /\ UNCHANGED <<geo_pipeline, geo_results, weather_data, meta_data,
                 letidVars, scenarioVars,
                 persistVars, libraryVars>>

\* geospatial.calc_block at work on block b: calc_gid for its k-th gid
\* (the blocks are dask tasks, run in any order and side by side; every
\* order of the gids of a block is admitted too)
CalcBlockGid(b, k) ==
  /\ dask.running
  /\ dask.done[b][k] = <<>>
  /\ LET res == calc_gid(weather_data, meta_data, dask.func, b, k)
     IN  dask' = [dask EXCEPT
                    !.done[b][k] = <<res>>,
                    !.log = Append(@, weather_data.rows[
                                        Position(dask.blocks, b, k)].gid)]
  /\ UNCHANGED <<geo_pipeline, geo_results, weather_data, meta_data,
                 geo_call, letidVars, scenarioVars,
                 persistVars, libraryVars>>

\* every block computed: analysis assembles the result, run stores it
GeoRunReturns ==
  /\ dask.running
  /\ \A b \in 1..Len(dask.blocks) :
       \A k \in 1..dask.blocks[b] : dask.done[b][k] # <<>>
  /\ geo_results' =
       [none |-> FALSE, func |-> dask.func,
        data |-> Unstacked(Flatten(dask.done, Len(dask.blocks)), meta_data)]
  /\ dask' = [dask EXCEPT !.running = FALSE]
  /\ geo_call' = [geo_call EXCEPT !.outcome = "ok"]
  /\ UNCHANGED <<geo_pipeline, weather_data, meta_data, letidVars,
                 scenarioVars,
                 persistVars, libraryVars>>

GeoNext ==
  \/ GeoAddJob
  \/ GeoRun
  \/ \E b \in 1..Len(weather_data.blocks) :
       \E k \in 1..weather_data.blocks[b] : CalcBlockGid(b, k)
  \/ GeoRunReturns

GeoSpec == GeoStart /\ [][GeoNext]_vars

(* ------------------------------- Init --------------------------------- *)

RECURSIVE Elapsed(_, _)
\* the timestamp of row i (seconds from row 0) for the step lengths dts
Elapsed(dts, i) == IF i = 0 THEN 0 ELSE Elapsed(dts, i - 1) + dts[i]

\* the record after "timesteps[['NA', 'NB', 'NC', 'tau']] = np.nan"; the
\* Jsc, Voc, Isc, FF, Pmp and Pmp_norm columns come into being, as NaN, with
\* their first assignment
NewTimesteps(temps, injection, dts) ==
  [i \in 1..NRows |->
     [Datetime |-> Elapsed(dts, i - 1),
      Temperature |-> temps[i], Injection |-> injection[i],
      NA |-> NaN, NB |-> NaN, NC |-> NaN, tau |-> NaN,
      Jsc |-> NaN, Voc |-> NaN,
      Isc |-> NaN, FF |-> NaN, Pmp |-> NaN, Pmp_norm |-> NaN]]

Init ==
  /\ \E lt \in Lifetimes : tau_0 = lt[1] /\ tau_deg = lt[2]
  /\ \E n \in InitialStates : nA_0 = n[1] /\ nB_0 = n[2] /\ nC_0 = n[3]
  /\ mechanism_params \in Mechanisms
  /\ \E temps \in [1..NRows -> Temperatures],
        injection \in [1..NRows -> Injections],
        dts \in [1..(NRows - 1) -> StepLengths] :
       /\ temps[1] = 75 /\ injection[1] = 1
       /\ timesteps = NewTimesteps(temps, injection, dts)
  /\ index = 0
  /\ pc = "seed"
  /\ error = [kind |-> "none", index |-> 0]
  /\ result = NoResult
  /\ regen = [x |-> 0, kind |-> "none", time |-> 0]
  /\ cell_area = CellArea
  /\ per_row = NoResult
  /\ energy_loss = NaN
  /\ NoScenarios
  /\ NoGeospatial
  /\ NoPersist
  /\ NoLibrary

(* ------------------------------ actions ------------------------------- *)

\* cell In[13], lines 160-161
SeedRow0 ==
  /\ pc = "seed"
  /\ timesteps' = [timesteps EXCEPT ![1] = SeededRow(@)]
  /\ pc' = "loop"
  /\ index' = 0
  /\ UNCHANGED <<beside, tau_0, tau_deg, nA_0, nB_0, nC_0, mechanism_params,
                 error, result, regen>>

\* the loop's first pass: "if index == 0: pass"
TimestepFirstRow ==
  /\ pc = "loop"
  /\ index = 0
  /\ index < Len(timesteps)
  /\ index' = index + 1
  /\ UNCHANGED <<beside, tau_0, tau_deg, nA_0, nB_0, nC_0, mechanism_params,
                 timesteps, pc, error, result, regen>>

\* one pass of the loop for a row index >= 1
TimestepRow ==
  /\ pc = "loop"
  /\ index >= 1
  /\ index < Len(timesteps)
  /\ LET prev == Row(timesteps, index - 1)
         blank == IsNaN(prev.NA) \/ IsNaN(prev.NB) \/ IsNaN(prev.NC)
         tau == tau_now(tau_0, tau_deg, Num(prev.NB))
     IN  IF ~blank /\ DomainError(tau)
         THEN Raise(index)
         ELSE /\ timesteps' =
                   [timesteps EXCEPT ![TargetRow(index) + 1] =
                      IF blank
                      THEN [@ EXCEPT !.NA = NaN, !.NB = NaN, !.NC = NaN]
                      ELSE LET n == NextDefects(timesteps, index)
                           IN  [@ EXCEPT !.NA = Val(n.NA), !.NB = Val(n.NB),
                                         !.NC = Val(n.NC)]]
              /\ index' = index + 1
              /\ UNCHANGED <<pc, error, result>>
  /\ UNCHANGED <<beside, tau_0, tau_deg, nA_0, nB_0, nC_0, mechanism_params,
                 regen>>

\* cell In[16], line 224, once the loop has passed the last row
RecomputeTau ==
  /\ pc = "loop"
  /\ index = Len(timesteps)
  /\ timesteps' = TauColumn(timesteps)
  /\ pc' = "jsc"
  /\ index' = 0
  /\ UNCHANGED <<beside, tau_0, tau_deg, nA_0, nB_0, nC_0, mechanism_params,
                 error, result, regen>>

\* one pass of the Jsc/Voc loop, lines 227-230
JscVocRow ==
  /\ pc = "jsc"
  /\ index < Len(timesteps)
  /\ LET tau == Row(timesteps, index).tau
     IN  IF ~IsNaN(tau) /\ DomainError(Num(tau))
         THEN Raise(index)
         ELSE /\ timesteps' =
                   [timesteps EXCEPT ![index + 1] =
                      IF IsNaN(tau) THEN [@ EXCEPT !.Jsc = NaN, !.Voc = NaN]
                      ELSE LET jsc_now == calculate_jsc_from_tau_cp(Num(tau))
                           IN  [@ EXCEPT
                                  !.Jsc = Val(jsc_now),
                                  !.Voc = Val(calc_voc_from_tau(Num(tau),
                                                                jsc_now))]]
              /\ index' = index + 1
              /\ UNCHANGED <<pc, error, result>>
  /\ UNCHANGED <<beside, tau_0, tau_deg, nA_0, nB_0, nC_0, mechanism_params,
                 regen>>

\* (variant: the record goes on without its device parameters)
CalcDeviceParamsSkipped ==
  /\ pc = "jsc"
  /\ index = Len(timesteps)
  /\ pc' = "params"
  /\ UNCHANGED <<beside, tau_0, tau_deg, nA_0, nB_0, nC_0, mechanism_params,
                 timesteps, index, error, result, regen>>

\* cell In[17], line 237, once the Jsc/Voc loop has passed the last row
CalcDeviceParams ==
  /\ pc = "jsc"
  /\ index = Len(timesteps)
  /\ timesteps' = calc_device_params(timesteps, cell_area)
  /\ pc' = "params"
  /\ UNCHANGED <<beside, tau_0, tau_deg, nA_0, nB_0, nC_0, mechanism_params,
                 index, error, result, regen>>

\* the run hands the record back
Finish ==
  /\ pc = "params"
  /\ result' = timesteps
  /\ pc' = "done"
  /\ UNCHANGED <<beside, tau_0, tau_deg, nA_0, nB_0, nC_0, mechanism_params,
                 timesteps, index, error, regen>>

\* letid.calc_regeneration_time(result, x)
CalcRegenerationTime ==
  /\ pc = "done"
  /\ \E x \in RegenThresholds :
       LET r == calc_regeneration_time(result, x)
       IN  regen' = [x |-> x, kind |-> r.kind, time |-> r.time]
  /\ pc' = "regen"
  /\ UNCHANGED <<beside, tau_0, tau_deg, nA_0, nB_0, nC_0, mechanism_params,
                 timesteps, index, error, result>>

Next ==
  \/ SeedRow0
  \/ TimestepFirstRow
  \/ TimestepRow
  \/ RecomputeTau
  \/ JscVocRow
  \/ CalcDeviceParams
  \/ Finish
  \/ CalcRegenerationTime

Spec == Init /\ [][Next]_vars

(* ------------- the device-parameter functions on any record ----------- *)
(* letid.calc_device_params and letid.calc_energy_loss are functions of    *)
(* the record they are given (tests/test_letid.py calls them on a stored   *)
(* record): here the record is drawn from every combination of the column  *)
(* values below.                                                           *)

\* the Jsc cells of a record: the two levels of calculate_jsc_from_tau_cp,
\* and no current at all
RecordJscs == {0, 1, 2}

\* the Voc cells of a record: the two levels of calc_voc_from_tau
RecordVocs == {3, 5}

\* cell_area given to calc_device_params
CellAreas == {1, CellArea}

\* a record with every input column filled
Record(jscs, vocs, dts) ==
  [i \in 1..NRows |->
     [Datetime |-> Elapsed(dts, i - 1),
      Temperature |-> 75, Injection |-> 1,
      NA |-> Val(Percent * Scale), NB |-> Val(0), NC |-> Val(0),
      tau |-> Val(115 * TauDen),
      Jsc |-> Val(jscs[i]), Voc |-> Val(vocs[i]),
      Isc |-> NaN, FF |-> NaN, Pmp |-> NaN, Pmp_norm |-> NaN]]

RecordInit ==
  /\ tau_0 = 115 /\ tau_deg = 55
  /\ nA_0 = Percent /\ nB_0 = 0 /\ nC_0 = 0
  /\ mechanism_params = CHOOSE m \in Mechanisms : m.v_ab = 1 /\ m.v_ba = 1
                                                 /\ m.v_bc = 1 /\ m.v_cb = 1
  /\ \E jscs \in [1..NRows -> RecordJscs],
        vocs \in [1..NRows -> RecordVocs],
        dts \in [1..(NRows - 1) -> StepLengths] :
       timesteps = Record(jscs, vocs, dts)
  /\ cell_area \in CellAreas
  /\ index = 0
  /\ pc = "record"
  /\ error = [kind |-> "none", index |-> 0]
  /\ result = NoResult
  /\ regen = [x |-> 0, kind |-> "none", time |-> 0]
  /\ per_row = NoResult
  /\ energy_loss = NaN
  /\ NoScenarios
  /\ NoGeospatial
  /\ NoPersist
  /\ NoLibrary

\* results = letid.calc_device_params(REPINS_TIMESTEPS, cell_area=243)
DeviceParams ==
  /\ pc = "record"
  /\ result' = calc_device_params(timesteps, cell_area)
  /\ pc' = "once"
  /\ UNCHANGED <<tau_0, tau_deg, nA_0, nB_0, nC_0, mechanism_params,
                 timesteps, index, error, regen, cell_area, per_row,
                 energy_loss, scenarioVars, geoVars,
                 persistVars, libraryVars>>

\* calc_device_params on the record it returned, with the same cell_area:
\* timesteps is then the record passed in, result the record returned
DeviceParamsAgain ==
  /\ pc = "once"
  /\ timesteps' = result
  /\ result' = calc_device_params(result, cell_area)
  /\ pc' = "twice"
  /\ UNCHANGED <<tau_0, tau_deg, nA_0, nB_0, nC_0, mechanism_params,
                 index, error, regen, cell_area, per_row, energy_loss,
                 scenarioVars, geoVars,
                 persistVars, libraryVars>>

\* calc_device_params once per row, each time on the record of that one row
DeviceParamsPerRow ==
  /\ pc = "once"
  /\ per_row' = [i \in 1..Len(timesteps) |->
                   calc_device_params(<<timesteps[i]>>, cell_area)[1]]
  /\ pc' = "rows"
  /\ UNCHANGED <<tau_0, tau_deg, nA_0, nB_0, nC_0, mechanism_params,
                 timesteps, index, error, result, regen, cell_area,
                 energy_loss, scenarioVars, geoVars,
                 persistVars, libraryVars>>

\* result = letid.calc_energy_loss(REPINS_TIMESTEPS)
CalcEnergyLoss ==
  /\ pc = "once"
  /\ energy_loss' = calc_energy_loss(result)
  /\ pc' = "energy"
  /\ UNCHANGED <<tau_0, tau_deg, nA_0, nB_0, nC_0, mechanism_params,
                 timesteps, index, error, result, regen, cell_area,
                 per_row, scenarioVars, geoVars,
                 persistVars, libraryVars>>

RecordNext ==
  \/ DeviceParams
  \/ DeviceParamsAgain
  \/ DeviceParamsPerRow
  \/ CalcEnergyLoss

RecordSpec == RecordInit /\ [][RecordNext]_vars


(* ------------------------------ claims -------------------------------- *)

\* the rows (1-based positions) whose populations have been assigned
Filled(ts) ==
  {i \in 1..Len(ts) : ~IsNaN(ts[i].NA) /\ ~IsNaN(ts[i].NB) /\ ~IsNaN(ts[i].NC)}

\* the kinetics of the step that assigns position i (from position i - 1)
StepKinetics(ts, i) ==
  Kinetics(tau_now(tau_0, tau_deg, Num(ts[i - 1].NB)),
           ts[i].Temperature, ts[i].Injection)

StepSeconds(ts, i) == ts[i].Datetime - ts[i - 1].Datetime

\* C1: population conservation.  In every row whose populations have been
\* assigned, NA + NB + NC equals nA_0 + nB_0 + nC_0: each forward-Euler step
\* adds derivatives that sum to zero, whatever the rates, carrier factors and
\* timestep length.
C1_PopulationConserved ==
  \A i \in Filled(timesteps) :
    Num(timesteps[i].NA) + Num(timesteps[i].NB) + Num(timesteps[i].NC)
      = (nA_0 + nB_0 + nC_0) * Scale

\* a finished run whose last row differs from row 0 in every population
C1_Witness ==
  /\ pc = "done"
  /\ Num(timesteps[NRows].NA) # Num(timesteps[1].NA)
  /\ Num(timesteps[NRows].NB) # Num(timesteps[1].NB)
  /\ Num(timesteps[NRows].NC) # Num(timesteps[1].NC)

TauWithin(tau) ==
  LET lo == IF tau_0 <= tau_deg THEN tau_0 ELSE tau_deg
      hi == IF tau_0 <= tau_deg THEN tau_deg ELSE tau_0
  IN  lo * TauDen <= tau /\ tau <= hi * TauDen

\* C2 as stated: the lifetime of every row lies between min(tau_0, tau_deg)
\* and max(tau_0, tau_deg), for initial percentages in [0, 100] and any
\* timestep spacing.
C2_LifetimeBound ==
  \A i \in 1..Len(timesteps) :
    ~IsNaN(timesteps[i].tau) => TauWithin(Num(timesteps[i].tau))

\* the step that assigns position i takes out of no state more than it
\* holds: each state's total outflow rate times the timestep is at most 1
StableStep(ts, i) ==
  LET kx == StepKinetics(ts, i)
      dt == StepSeconds(ts, i)
  IN  /\ kx.k_AB * kx.x_ab * dt <= RateDen
      /\ (kx.k_BA * kx.x_ba + kx.k_BC * kx.x_bc) * dt <= RateDen
      /\ kx.k_CB * dt <= RateDen

\* C2 as amended: when nA_0 + nB_0 + nC_0 <= 100 and every step up to a row
\* is a stable step, NB of the row is within [0, 100] and its lifetime lies
\* between min(tau_0, tau_deg) and max(tau_0, tau_deg).
C2_LifetimeBoundStableSteps ==
  \A i \in Filled(timesteps) :
    (/\ nA_0 + nB_0 + nC_0 <= Percent
     /\ \A j \in 2..i : StableStep(timesteps, j))
    => /\ 0 <= Num(timesteps[i].NB)
       /\ Num(timesteps[i].NB) <= Percent * Scale
       /\ TauWithin(tau_now(tau_0, tau_deg, Num(timesteps[i].NB)))
       /\ ~IsNaN(timesteps[i].tau) => TauWithin(Num(timesteps[i].tau))

\* a finished run of stable steps from 100 % in state A that moved defects
\* into state B
C2_Witness ==
  /\ pc = "done"
  /\ nA_0 + nB_0 + nC_0 <= Percent
  /\ \A j \in 2..NRows : StableStep(timesteps, j)
  /\ Num(timesteps[NRows].NB) > Num(timesteps[1].NB)
  /\ Num(timesteps[NRows].tau) # Num(timesteps[1].tau)

\* the populations that follow (n_A, n_B, n_C) under the given temperature
\* and injection after dt seconds: a function of these and of the run's
\* constants alone
RowFrom(n_A, n_B, n_C, temperature, injection, dt) ==
  LET kx == Kinetics(tau_now(tau_0, tau_deg, n_B), temperature, injection)
  IN  [NA |-> Euler(n_A, dN_Adt(kx.k_AB, kx.k_BA, n_A, n_B,
                                kx.x_ab, kx.x_ba), dt),
       NB |-> Euler(n_B, dN_Bdt(kx.k_AB, kx.k_BA, kx.k_BC, kx.k_CB,
                                n_A, n_B, n_C, kx.x_ab, kx.x_ba, kx.x_bc), dt),
       NC |-> Euler(n_C, dN_Cdt(kx.k_BC, kx.k_CB, n_B, n_C, kx.x_bc), dt)]

\* C3: first-order recurrence.  Every pass of the loop that stays in the loop
\* assigns exactly the next row in timestamp order, from the previous row's
\* (NA, NB, NC), the row's own Temperature and Injection and the seconds
\* between the two rows; it leaves every other row, earlier or later, as it
\* was, so no row depends on the inputs of a later one.
C3_FirstOrderRecurrence ==
  [][(pc = "loop" /\ index >= 1 /\ pc' = "loop")
     => /\ index' = index + 1
        /\ timesteps[index + 1].Datetime > timesteps[index].Datetime
        /\ LET prev == timesteps[index]
               cur == timesteps[index + 1]
               n == RowFrom(Num(prev.NA), Num(prev.NB), Num(prev.NC),
                            cur.Temperature, cur.Injection,
                            cur.Datetime - prev.Datetime)
           IN  timesteps' =
                 [timesteps EXCEPT ![index + 1] =
                    [cur EXCEPT !.NA = Val(n.NA), !.NB = Val(n.NB),
                                !.NC = Val(n.NC)]]]_vars

\* the last row has been assigned, its inputs differing from the row's
\* before it, while the Jsc/Voc stage has not begun
C3_Witness ==
  /\ pc = "loop"
  /\ index = NRows
  /\ NRows \in Filled(timesteps)
  /\ timesteps[NRows].Temperature # timesteps[NRows - 1].Temperature
  /\ timesteps[NRows].Injection # timesteps[NRows - 1].Injection
  /\ Num(timesteps[NRows].NB) # Num(timesteps[NRows - 1].NB)

\* C4: forward-Euler update rule.  Every assigned row i >= 1 is the previous
\* row plus dN/dt * dt with
\*   dNA/dt = k_BA NB x_ba - k_AB NA x_ab
\*   dNB/dt = k_AB NA x_ab + k_CB NC - (k_BA x_ba + k_BC x_bc) NB
\*   dNC/dt = k_BC NB x_bc - k_CB NC
\* on the previous row's populations, dt the seconds between the two rows'
\* own timestamps (rates are per RateDen seconds).
C4_ForwardEuler ==
  \A i \in Filled(timesteps) \ {1} :
    LET kx == StepKinetics(timesteps, i)
        dt == StepSeconds(timesteps, i)
        a == Num(timesteps[i - 1].NA)
        b == Num(timesteps[i - 1].NB)
        c == Num(timesteps[i - 1].NC)
    IN  /\ RateDen * (Num(timesteps[i].NA) - a)
             = (kx.k_BA * b * kx.x_ba - kx.k_AB * a * kx.x_ab) * dt
        /\ RateDen * (Num(timesteps[i].NB) - b)
             = (kx.k_AB * a * kx.x_ab + kx.k_CB * c
                - (kx.k_BA * kx.x_ba + kx.k_BC * kx.x_bc) * b) * dt
        /\ RateDen * (Num(timesteps[i].NC) - c)
             = (kx.k_BC * b * kx.x_bc - kx.k_CB * c) * dt

\* rows at irregular spacing, all four transitions active, no injection in
\* the last step (only C -> B proceeds without carriers)
C4_Witness ==
  /\ NRows \in Filled(timesteps)
  /\ StepSeconds(timesteps, NRows) # StepSeconds(timesteps, 2)
  /\ timesteps[NRows].Injection = 0
  /\ mechanism_params.v_cb > 0
  /\ Num(timesteps[NRows].NC) < Num(timesteps[NRows - 1].NC)
  /\ Num(timesteps[NRows].NB) > Num(timesteps[NRows - 1].NB)


\* C5: the lifetime of every row is the linear interpolation between tau_0
\* and tau_deg weighted by the row's own NB / 100, and once the tau column
\* has been recomputed every row has one.
C5_TauLinearInNB ==
  /\ \A i \in 1..Len(timesteps) :
       ~IsNaN(timesteps[i].tau)
       => /\ ~IsNaN(timesteps[i].NB)
          /\ Num(timesteps[i].tau) - tau_0 * TauDen
               = Num(timesteps[i].NB) * (tau_deg - tau_0)
  /\ pc \in {"jsc", "params", "done", "regen"}
     => \A i \in 1..Len(timesteps) : ~IsNaN(timesteps[i].tau)

\* a finished run whose last row has part of the defects in state B, and
\* another share of them than the row before it
C5_Witness ==
  /\ pc = "done"
  /\ 0 < Num(timesteps[NRows].NB)
  /\ Num(timesteps[NRows].NB) < Percent * Scale
  /\ Num(timesteps[NRows].NB) # Num(timesteps[NRows - 1].NB)
  /\ ~IsNaN(timesteps[NRows].tau)

\* C6: with no defects in state B the lifetime is tau_0 exactly: the seeded
\* row 0 of a run with nB_0 = 0, and every row whose NB is 0.
C6_TauNowAtZero ==
  /\ (pc # "seed" /\ nB_0 = 0) => timesteps[1].tau = Val(tau_0 * TauDen)
  /\ \A i \in 1..Len(timesteps) :
       (~IsNaN(timesteps[i].tau) /\ timesteps[i].NB = Val(0))
       => timesteps[i].tau = Val(tau_0 * TauDen)

\* row 0 seeded from nA_0 = 100, nB_0 = 0 with tau_deg different from tau_0
C6_Witness ==
  /\ pc = "loop"
  /\ index = 0
  /\ nA_0 = Percent
  /\ nB_0 = 0
  /\ tau_0 # tau_deg
  /\ timesteps[1].tau = Val(tau_0 * TauDen)

\* C7: from its seeding on, row 0 holds nA_0, nB_0, nC_0 and
\* tau_now(tau_0, tau_deg, nB_0); no later step changes them.
C7_RowZeroKept ==
  pc # "seed"
  => /\ timesteps[1].NA = Val(nA_0 * Scale)
     /\ timesteps[1].NB = Val(nB_0 * Scale)
     /\ timesteps[1].NC = Val(nC_0 * Scale)
     /\ timesteps[1].tau = Val(tau_now(tau_0, tau_deg, nB_0 * Scale))

\* a finished run, tau column recomputed, whose later rows all differ from
\* row 0
C7_Witness ==
  /\ pc = "done"
  /\ nB_0 > 0
  /\ \A i \in 2..NRows :
       /\ Num(timesteps[i].NB) # Num(timesteps[1].NB)
       /\ Num(timesteps[i].tau) # Num(timesteps[1].tau)

C10_RegenerationNoResult ==
  (/\ pc = "regen"
   /\ \A i \in 1..Len(result) : Num(result[i].NC) < regen.x * Scale)
  => regen.kind = "none"

(* ---------------- claims about the device parameters ---------------- *)

\* C11: calc_device_params fills, in every row i, Pmp[i] = Voc[i] * Isc[i] *
\* FF[i] and Pmp_norm[i] = Pmp[i] / Pmp[0] (the first row's Pmp); for a
\* record with Pmp[0] # 0 the first row's Pmp_norm is therefore 1.
C11_PmpAndPmpNorm ==
  result # NoResult
  => /\ \A i \in 1..Len(result) :
          LET r == result[i]
          IN  /\ r.Pmp = Val(Num(r.Voc) * Num(r.Isc) * Num(r.FF))
              /\ Num(result[1].Pmp) # 0
                 => /\ Finite(r.Pmp_norm)
                    /\ Num(r.Pmp_norm)[1] * Num(result[1].Pmp)
                         = Num(r.Pmp_norm)[2] * Num(r.Pmp)
     /\ Num(result[1].Pmp) # 0 => result[1].Pmp_norm = Val(<<1, 1>>)

\* calc_device_params has returned a record, for the tutorial's cell area,
\* whose first row has power and whose last row has another power and
\* another fill factor than the first
C11_Witness ==
  /\ pc = "once"
  /\ cell_area = CellArea
  /\ Num(result[1].Pmp) # 0
  /\ Num(result[NRows].Pmp) # 0
  /\ result[NRows].FF # result[1].FF
  /\ result[NRows].Pmp_norm # Val(<<1, 1>>)

\* C12: calc_device_params is idempotent: applied, with the same cell_area,
\* to the record a first application returned, it returns a record equal to
\* it in every column (Isc, FF, Pmp, Pmp_norm and all input columns).
C12_Idempotent ==
  pc = "twice" => result = timesteps

\* the second application has returned, on a record of more than one power
\* level and a cell area other than 1
C12_Witness ==
  /\ pc = "twice"
  /\ cell_area # 1
  /\ Num(timesteps[1].Jsc) # 0
  /\ Num(result[1].Pmp) # 0
  /\ result[NRows].Pmp_norm # result[1].Pmp_norm

PowerDensity(ts, i) == Num(ts[i].Voc) * Num(ts[i].Jsc) * Num(ts[i].FF)

RECURSIVE TwiceDeficitArea(_, _)
\* twice the trapezoid area, up to position i, between the first row's power
\* density and the rows' own
TwiceDeficitArea(ts, i) ==
  IF i = 1 THEN 0
  ELSE TwiceDeficitArea(ts, i - 1)
       + (ts[i].Datetime - ts[i - 1].Datetime)
         * (2 * PowerDensity(ts, 1) - PowerDensity(ts, i - 1)
            - PowerDensity(ts, i))

\* a Pmp_norm cell within [0, 1]
WithinUnit(c) ==
  Finite(c) /\ 0 <= Num(c)[1] /\ Num(c)[1] <= Num(c)[2]

\* C14: the energy loss of a record is the time integral (trapezoids between
\* consecutive rows) of its Pmp deficit relative to the non-degraded
\* baseline, the first row's Pmp, divided by the integral of the baseline
\* over the same period; it is 0 for a record whose Pmp_norm is 1 in every
\* row and lies in [0, 1] when every Pmp_norm lies in [0, 1].
C14_EnergyLoss ==
  pc = "energy"
  => LET period == result[NRows].Datetime - result[1].Datetime
     IN  /\ PowerDensity(result, 1) # 0
            => energy_loss
                 = Val(Fraction(TwiceDeficitArea(result, NRows),
                                2 * PowerDensity(result, 1) * period))
         /\ (\A i \in 1..NRows : result[i].Pmp_norm = Val(<<1, 1>>))
            => energy_loss = Val(<<0, 1>>)
         /\ (\A i \in 1..NRows : WithinUnit(result[i].Pmp_norm))
            => /\ ~IsNaN(energy_loss)
               /\ 0 <= Num(energy_loss)[1]
               /\ Num(energy_loss)[1] <= Num(energy_loss)[2]

\* the energy loss of a record at irregular spacing whose power falls below
\* the baseline and partly recovers: a loss strictly between 0 and 1
C14_Witness ==
  /\ pc = "energy"
  /\ result[NRows].Datetime - result[NRows - 1].Datetime
       # result[2].Datetime - result[1].Datetime
  /\ \A i \in 1..NRows : WithinUnit(result[i].Pmp_norm)
  /\ result[2].Pmp_norm # result[1].Pmp_norm
  /\ result[NRows].Pmp_norm # result[NRows - 1].Pmp_norm
  /\ ~IsNaN(energy_loss)
  /\ 0 < Num(energy_loss)[1]
  /\ Num(energy_loss)[1] < Num(energy_loss)[2]

(* ------------------- the lab run as one function ---------------------- *)

RECURSIVE LabDefects(_, _, _, _)
\* the populations of row i of a lab run: row 0 seeded, every later row one
\* forward-Euler step from the row before under the constant inputs
LabDefects(i, injection, temperature, dt) ==
  IF i = 0
  THEN [NA |-> nA_0 * Scale, NB |-> nB_0 * Scale, NC |-> nC_0 * Scale]
  ELSE LET p == LabDefects(i - 1, injection, temperature, dt)
       IN  RowFrom(p.NA, p.NB, p.NC, temperature, injection, dt)

\* letid.calc_letid_lab(tau_0, tau_deg, wafer_thickness, s_rear, nA_0, nB_0,
\* nC_0, injection, temperature, mechanism_params) on a uniform grid of dt
\* seconds: the record of the whole chain, or nothing when a lifetime of it
\* is rejected
calc_letid_lab(injection, temperature, dt) ==
  LET n(i) == LabDefects(i - 1, injection, temperature, dt)
      tau(i) == tau_now(tau_0, tau_deg, n(i).NB)
      jsc(i) == calculate_jsc_from_tau_cp(tau(i))
  IN  IF \E i \in 1..NRows : DomainError(tau(i)) THEN NoResult
      ELSE calc_device_params(
             [i \in 1..NRows |->
                [Datetime |-> (i - 1) * dt,
                 Temperature |-> temperature, Injection |-> injection,
                 NA |-> Val(n(i).NA), NB |-> Val(n(i).NB),
                 NC |-> Val(n(i).NC), tau |-> Val(tau(i)),
                 Jsc |-> Val(jsc(i)),
                 Voc |-> Val(calc_voc_from_tau(tau(i), jsc(i))),
                 Isc |-> NaN, FF |-> NaN, Pmp |-> NaN, Pmp_norm |-> NaN]],
             CellArea)

\* the record's inputs are those of a lab run: one temperature, one
\* injection, rows at one spacing
LabInputs(ts) ==
  \A i \in 2..Len(ts) :
    /\ ts[i].Temperature = ts[1].Temperature
    /\ ts[i].Injection = ts[1].Injection
    /\ ts[i].Datetime - ts[i - 1].Datetime = ts[2].Datetime - ts[1].Datetime

C16_ScenariosIsolated ==
  [][\A y \in ScenarioNames :
       (call'.op \in {"addModule", "addJob"} /\ call'.self # y)
       => /\ ModulesOf(y)' = ModulesOf(y)
          /\ PipelineOf(y)' = PipelineOf(y)]_vars

\* the module names of a list
NamesOf(mods) == {mods[i].module_name : i \in 1..Len(mods)}

\* C18: module names are unique.  Every modules list starts empty and only
\* addModule changes one; after a successful addModule the list of the
\* scenario has no two entries of one name, its entry of the call's name is
\* the call's racking, material parameters, temperature model and kwargs,
\* and the entries of the other names are those it had; an addModule whose
\* material is not found, and any other call, leaves every list as it was.
\* Hence the entry of a name is that of the most recent successful
\* addModule with that name on the list.
C18_ModuleNamesUnique ==
  [][IF call'.op = "addModule" /\ call'.outcome = "ok"
     THEN LET before == heap[scenarios[call'.self].modules]
              after == heap'[scenarios'[call'.self].modules]
              name == call'.module.module_name
          IN  /\ \A i, j \in 1..Len(after) :
                   after[i].module_name = after[j].module_name => i = j
              /\ \E i \in 1..Len(after) : after[i] = call'.module
              /\ NamesOf(after) = NamesOf(before) \cup {name}
              /\ \A i \in 1..Len(before) :
                   before[i].module_name # name
                   => \E j \in 1..Len(after) : after[j] = before[i]
     ELSE \A x \in ScenarioNames : ModulesOf(x)' = ModulesOf(x)]_vars

\* a third successful addModule on one scenario has replaced the entry of
\* the first: two entries, the replaced name now last, its racking the new
\* one
C18_Witness ==
  /\ call.op = "addModule"
  /\ call.outcome = "ok"
  /\ call.n = MaxCalls
  /\ Len(ModulesOf(call.self)) = 2
  /\ ModulesOf(call.self)[2] = call.module
  /\ call.module.module_name = "m1"
  /\ call.module.racking = "open_rack_glass_glass"
  /\ ModulesOf(call.self)[1].racking = "open_rack_glass_polymer"
  /\ scenarios[call.self].modules # DefaultModules

\* C19: Scenario.run on a scenario without modules runs every job of the
\* pipeline and stores each job's result in results under the job's id,
\* without raising.
C19_RunWithoutModules ==
  (call.op = "run" /\ ModulesOf(call.self) = <<>>)
  => /\ call.outcome = "ok"
     /\ ~scenarios[call.self].results.none
     /\ DOMAIN scenarios[call.self].results.dict
          = {PipelineOf(call.self)[i].id :
               i \in 1..Len(PipelineOf(call.self))}


(* ----------------------- Claims: geospatial runs ---------------------- *)

\* the result of a gid as its own weather slice and its own metadata row
\* give it, whatever the blocks and the order
OwnResult(func, i) ==
  GidResult(func, weather_data.rows[i].weather,
            [latitude |-> meta_data[i].latitude,
             longitude |-> meta_data[i].longitude])

\* C17: in geospatial.analysis the result computed for a gid is the
\* function of that gid's own weather slice, that gid's own metadata row
\* and the shared function alone: every result a block has computed, and
\* every entry of the assembled result, is that value, for every partition
\* of the gids into blocks and every order of processing.
C17_PerSiteIndependence ==
  /\ dask.running =>
       \A b \in 1..Len(dask.blocks) : \A k \in 1..dask.blocks[b] :
         dask.done[b][k] # <<>> =>
           dask.done[b][k][1] =
             OwnResult(dask.func, Position(dask.blocks, b, k))
  /\ ~geo_results.none =>
       /\ DOMAIN geo_results.data =
            {<<meta_data[i].latitude, meta_data[i].longitude>> : i \in Gids}
       /\ \A i \in Gids :
            geo_results.data[<<meta_data[i].latitude,
                               meta_data[i].longitude>>] =
              OwnResult(geo_results.func, i)

\* a run over more than one block has returned, a gid of a later block
\* was computed before one of an earlier block, and the gids' weather
\* differs
C17_Witness ==
  /\ ~geo_results.none
  /\ ~dask.running
  /\ Len(dask.blocks) > 1
  /\ Len(dask.log) = NGids
  /\ dask.log[1] > dask.log[NGids]
  /\ \E i, j \in Gids :
       weather_data.rows[i].weather # weather_data.rows[j].weather

\* C20: after a GeospatialScenario.run that follows an accepted addJob,
\* results is not None and holds the result of the job's function.
C20_AcceptedJobIsRun ==
  (geo_call.op = "run" /\ geo_call.outcome = "ok" /\ HasJob(geo_pipeline))
  => (~geo_results.none /\ geo_results.func = GeoJob(geo_pipeline))


(* ------------- Claims: credentials, dump and load_json ---------------- *)

\* C21: restore_credentials(email, api_key) called on a scenario whose
\* email and api_key are both None sets the two attributes to the given
\* values.
C21_RestoreCredentials ==
  [][(/\ call'.op = "restore_credentials"
      /\ attrs[call'.self].email = <<>>
      /\ attrs[call'.self].api_key = <<>>)
     => (/\ attrs'[call'.self].email = call'.args.email
         /\ attrs'[call'.self].api_key = call'.args.api_key)]_vars

\* the file Scenario x has just dumped
Dumped(x) ==
  CHOOSE f \in disk : f.target = Target(scenarios[x].path, attrs[x].name)

\* C22: the json written by dump with api_key=False has no "email" and no
\* "api_key" entry and is the json dump writes for the same scenario with
\* any other email and api_key; with api_key=True the two entries are
\* there.
C22_DumpKeepsCredentialsOut ==
  call.op = "dump" =>
    LET json == Dumped(call.self).json
    IN  IF call.args.flag
        THEN /\ {"email", "api_key"} \subseteq DOMAIN json
             /\ json["email"] = attrs[call.self].email
             /\ json["api_key"] = attrs[call.self].api_key
        ELSE /\ "email" \notin DOMAIN json
             /\ "api_key" \notin DOMAIN json
             /\ \A email \in Emails, api_key \in ApiKeys :
                  json = json_dumps(_to_dict(
                           [Self(call.self) EXCEPT !.email = email,
                                                   !.api_key = api_key],
                           FALSE))

\* a scenario with an email, an api key and a job has been dumped with
\* api_key=False
C22_Witness ==
  /\ call.op = "dump"
  /\ ~call.args.flag
  /\ attrs[call.self].email # <<>>
  /\ attrs[call.self].api_key # <<>>
  /\ PipelineOf(call.self) # <<>>

\* C23: constructing scenario b from the json that dump has just written
\* for scenario a gives an object with a's name, path, hpc flag, modules
\* and pipeline (job ids, params and functions).
C23_DumpLoadRoundTrip ==
  [][(call.op = "dump" /\ call'.op = "load")
     => (/\ scenarios'["b"].created
         /\ attrs'["b"].name = attrs["a"].name
         /\ attrs'["b"].hpc = attrs["a"].hpc
         /\ scenarios'["b"].path = scenarios["a"].path
         /\ heap'[scenarios'["b"].modules] = heap[scenarios["a"].modules]
         /\ heap'[scenarios'["b"].pipeline] =
              heap[scenarios["a"].pipeline])]_vars


(* ------------------------ Claims: temperature ------------------------- *)

\* C24: temperature.module called with a weather frame, the metadata and
\* the defaults of its other parameters (poa None, open_rack_glass_polymer,
\* sapm, model_args None) ends without error and returns one module
\* temperature per timestep of the frame.
C24_ModuleTemperatureDefaults ==
  (/\ temp_call.called
   /\ temp_call.poa = <<>>
   /\ temp_call.conf = "open_rack_glass_polymer"
   /\ temp_call.temp_model = "sapm"
   /\ temp_call.model_args = "None")
  => (/\ temp_call.outcome = "ok"
      /\ Len(temp_call.value) = Len(temp_call.weather_df))


(* --------------------- Claims: addJob and run ------------------------- *)

C27_AtMostOneJob ==
  /\ [](Len(geo_pipeline) <= 1)
  /\ [][IF geo_call'.op = "addJob" /\ HasTemplate(geo_call'.func)
        THEN geo_pipeline' =
               <<[key |-> "geospatial_job", job |-> geo_call'.func,
                  params |-> geo_call'.params]>>
        ELSE geo_pipeline' = geo_pipeline]_vars

\* a second job has been accepted, with params, after a job of another
\* function
C27_Witness ==
  /\ geo_call.op = "addJob"
  /\ geo_call.outcome = "ok"
  /\ geo_call.params # <<>>
  /\ ~geo_results.none
  /\ geo_results.func # geo_call.func


(* -------------------------- Claims: weather --------------------------- *)

\* C28: with attributes None the frame that read_h5 or get_NSRDB returns
\* has one column for every dataset of the file(s) read other than 'meta'
\* and 'tmy_year_short', and neither of these two names is a column.
C28_NoMetaColumns ==
  (frame.outcome = "ok" /\ frame.attributes = "None")
  => LET datasets == UNION {Elements(nsrdb[i]) : i \in frame.files}
     IN  /\ "meta" \notin Elements(frame.columns)
         /\ "tmy_year_short" \notin Elements(frame.columns)
         /\ Elements(frame.columns) = datasets \ {"meta", "tmy_year_short"}
         /\ Len(frame.columns) = Cardinality(Elements(frame.columns))

\* a frame was returned for a file that holds 'tmy_year_short' and a
\* weather dataset
C28_Witness ==
  /\ frame.outcome = "ok"
  /\ frame.attributes = "None"
  /\ frame.columns # <<>>
  /\ \E i \in frame.files : "tmy_year_short" \in Elements(nsrdb[i])

=============================================================================
